---- MODULE Spec2Model ----
(***************************************************************************)
(* Model of the real-time message synchronizer of the Nexu client:         *)
(* the hook useRealTimeMessages (src/src/hooks/useRealTimeMessages.ts),    *)
(* the send path of ChatScreen.handleSendMessage                           *)
(* (src/src/screens/ChatScreen.tsx) and the remote collaborators they      *)
(* talk to (messages table, push channels, on-device joined-chat list).    *)
(*                                                                         *)
(* React applies queued functional state updates in the order they were    *)
(* queued and runs every callback to completion on one thread, so each     *)
(* callback (effect, promise continuation, channel event) is one action.   *)
(* A state setter called after the component was unmounted is a no-op.     *)
(*                                                                         *)
(* Spec          the hook, the send path and the server, interleaved       *)
(* SpecHistory   loadInitialMessages on visible windows of every size      *)
(* SpecOps       the list operations applied to every list the hook holds  *)
(* SpecDiscovery one call of getNearbyChatsGroups (services/chatGroups.ts) *)
(* SpecMap       the group-fetching effect of the map screen               *)
(* SpecSend      one call of sendMessage (services/chatMessages.ts)        *)
(* SpecSender    the sender fields ChatScreen and sendMessage produce      *)
(* SpecIdentity  calls of getOrCreateAnonymousUser on a fresh installation *)
(* SpecParticipation  joinChat / leaveChat / hasJoinedChat one at a time   *)
(* SpecOverlap   two overlapping joinChat / leaveChat calls                *)
(* SpecValidate  history load and push events with rows of every shape     *)
(* SpecAdd       addOptimisticMessage applied to every list                *)
(* SpecInit      the effect and initializeChat of the hook on their own    *)
(*                                                                         *)
(* Timestamps: the server stamps a row with its commit time, the client    *)
(* stamps an optimistic entry with the same clock (no skew). supabase      *)
(* .channel() is taken to return a fresh channel on every call.            *)
(***************************************************************************)
EXTENDS Integers, Sequences, FiniteSets, TLC

\* ------------------------------------------------------------------ bounds
MaxRuns == 2        \* effect runs (initialisations) of one hook instance
MaxSends == 1       \* handleSendMessage calls
MaxRows == 2        \* rows committed to the messages table
MaxWindow == 103    \* rows in the visible window (history query on its own)
MaxLen == 3         \* length of the lists the list operations are applied to
MaxIds == 2         \* server ids and temporary ids in those lists

\* --------------------------------------------------------------- constants
HistoryLimit == 100

Null == "null"
NoChannel == 0
NoLocation == 0 - 1
NoDevice == 0
NoFetch == [lat |-> NoLocation, time |-> 0]
NoTimer == [lat |-> NoLocation, time |-> 0, set |-> FALSE]
NoResult == [success |-> FALSE, error |-> "pending", inserted |-> FALSE]

\* chat ids the hook can be given; "" is the falsy chatGroupId
ChatIds == {"", "A", "B"}
RealChats == ChatIds \ {""}

NotJoinedError == "You must join this chat before viewing messages"
LoadFailedError == "Failed to load messages"
ConnectionLostError == "Real-time connection lost"

SrvId(n) == <<"srv", n>>
TempId(n) == <<"temp", n>>

\* ------------------------------------------------------------------- state
VARIABLES
    chatGroupId,      \* the hook's chatGroupId argument (current render)
    phase,            \* "rendered" (before the first effect), "mounted", "unmounted"
    messages,         \* useState: the message list
    isLoading,        \* useState
    error,            \* useState
    subscriptionRef,  \* useRef: index of the channel held, or NoChannel
    isAuthorizedRef,  \* useRef
    inits,            \* one initializeChat call per effect run: [chat, pc, fetched]
    channels,         \* push channels ever opened: [chat, status, queue]
    db,               \* rows of the messages table inside the visible window
    joinedChats,      \* ids of the active records of the on-device joined list
    isAuthorized,     \* ChatScreen: isAuthorized && currentUserId
    sends,            \* handleSendMessage calls: [chat, tempId, pc, row, applied]
    lastOp,           \* history: the last list operation applied on its own
    prevMessages      \* history: the list before that operation

\* getNearbyChatsGroups (src/src/services/chatGroups.ts), one call
VARIABLES
    userLocation,     \* argument: [latitude, longitude] in grid steps
    radiusKm,         \* argument, in metres
    supabaseClient,   \* whether the module-level client is initialised
    chat_groups,      \* rows of the chat_groups table
    discPc,           \* position of the call
    requests,         \* remote requests issued so far: [kind, outcome]
    discResult,       \* the list the call resolved with
    returnPath        \* "primary", "simplified", "sample" or "none"

discVars == <<userLocation, radiusKm, supabaseClient, chat_groups, discPc,
              requests, discResult, returnPath>>

\* the group-fetching effect of the map screen
\* (src/src/screens/MapScreen.tsx, src/unnamed/part_006)
VARIABLES
    screen,               \* which of the two versions of the screen runs
    location,             \* useLocation().location as last rendered
    dateNow,              \* Date.now(), in units of ten seconds
    lastFetchLocationRef, \* useRef: [lat, time] of the last completed fetch
    fetchTimeoutRef,      \* useRef: the pending debounce timer, or NoTimer
    fetches,              \* fetchNearbyGroups calls: [lat, time, pc]
    nearbyGroups,         \* useState: index of the fetch whose list is shown
    chatPins,             \* useState: index of the fetch whose pins are shown
    loadingGroups,        \* useState
    updates               \* number of location updates so far

mapVars == <<screen, location, dateNow, lastFetchLocationRef, fetchTimeoutRef,
             fetches, nearbyGroups, chatPins, loadingGroups, updates>>

\* sendMessage (src/src/services/chatMessages.ts), one call
VARIABLES
    params,           \* argument: [chatGroupId, content, senderType, userId,
                      \*            userDisplayName]
    sendPc,           \* position of the call
    sender,           \* senderId once resolved, or Null
    calls,            \* storage reads and remote calls made so far, in order
    sendResult,       \* the SendMessageResult the call resolved with
    recent            \* server: rows of the last minute per <<column, id>>

sendVars == <<params, sendPc, sender, calls, sendResult, recent>>

\* the sender state of ChatScreen (src/src/screens/ChatScreen.tsx)
VARIABLES
    isAuthenticated,  \* useAuth().isAuthenticated as last rendered
    user,             \* useAuth().user as last rendered: its id, or Null
    currentUserId,    \* useState, '' at first
    currentUserName,  \* useState, '' at first
    authChecks,       \* checkAuthorization runs: [isAuthenticated, user, pc]
    optimistic,       \* sender fields of the entries addOptimisticMessage built
    authChanges       \* number of auth state changes so far

screenVars == <<isAuthenticated, user, currentUserId, currentUserName,
                authChecks, optimistic, authChanges>>

\* getOrCreateAnonymousUser (src/src/services/anonymousUser.ts), several calls
VARIABLES
    nexu_device_id,   \* SecureStore / localStorage: the stored device id, or NoDevice
    generated,        \* device ids generated so far, in order
    anonymous_users,  \* remote table: device_id of every row
    identityCalls     \* the calls: [pc, deviceId, result]

identityVars == <<nexu_device_id, generated, anonymous_users, identityCalls>>

\* joinChat / leaveChat / hasJoinedChat (src/src/services/userParticipation.ts)
VARIABLES
    nexu_joined_chats, \* AsyncStorage: the stored list of JoinedChat records
    participation,     \* the calls: [op, chatId, chatName, pc, read, list, result]
    isoNow,            \* new Date().toISOString(), as a counter
    lastCompleted      \* history: per chat id, the last joinChat / leaveChat that resolved

participationVars == <<nexu_joined_chats, participation, isoNow, lastCompleted>>

clientVars == <<screenVars, identityVars, participationVars>>

serviceVars == <<discVars, mapVars, sendVars, clientVars>>

vars == <<chatGroupId, phase, messages, isLoading, error, subscriptionRef,
          isAuthorizedRef, inits, channels, db, joinedChats, isAuthorized,
          sends, lastOp, prevMessages, serviceVars>>

\* ------------------------------------------------------------ message rows
\* A row of the messages table. `missing` names the columns that are null or
\* undefined in the row; isOptimistic is "undefined" on a row as the server
\* returns it.
ServerRow(n, chat, senderType, name, miss) ==
    [id |-> SrvId(n), chat_group_id |-> chat, content |-> "text", sent_at |-> n,
     sender_type |-> senderType, display_name |-> name,
     isOptimistic |-> "undefined", missing |-> miss]

NoRow == ServerRow(0, "", "none", "", {})

RequiredFields ==
    {"id", "chat_group_id", "content", "sent_at", "sender_type", "display_name"}

validateMessageRequiredOnly(m) ==
    RequiredFields \cap m.missing = {}

validateMessage(m) ==
    /\ RequiredFields \cap m.missing = {}
    /\ m.sender_type \in {"user", "anonymous"}

Ids(list) == {list[i].id : i \in DOMAIN list}

ApplyInsertAlwaysAppend(prev, row) ==
    Append(prev, [row EXCEPT !.isOptimistic = "false"])

ApplyInsertMoveToEnd(prev, row) ==
    Append(SelectSeq(prev, LAMBDA m : m.id # row.id),
           [row EXCEPT !.isOptimistic = "false"])

\* setMessages updater of the postgres_changes handler: replace the entries
\* with the row's id in place, or append the row

ApplyInsert(prev, row) ==
    IF \E i \in DOMAIN prev : prev[i].id = row.id
    THEN [i \in DOMAIN prev |->
            IF prev[i].id = row.id
            THEN [row EXCEPT !.isOptimistic = "false"]
            ELSE prev[i]]
    ELSE Append(prev, [row EXCEPT !.isOptimistic = "false"])

\* the postgres_changes handler: validate, then append or replace
OnInsertEvent(prev, row) ==
    IF validateMessage(row) THEN ApplyInsert(prev, row) ELSE prev

OptimisticMessage(tempId, chat, now) ==
    [id |-> tempId, chat_group_id |-> chat, content |-> "text", sent_at |-> now,
     sender_type |-> "anonymous", display_name |-> "me",
     isOptimistic |-> "true", missing |-> {}]

addOptimisticMessageFirst(prev, tempId, chat, now) ==
    <<OptimisticMessage(tempId, chat, now)>> \o prev

addOptimisticMessage(prev, tempId, chat, now) ==
    Append(prev, OptimisticMessage(tempId, chat, now))

removeOptimisticMessageKeepAll(prev, tempId) == prev

removeOptimisticMessage(prev, tempId) ==
    SelectSeq(prev, LAMBDA m : m.id # tempId)

replaceOptimisticMessageKeepFlag(prev, tempId, real) ==
    [i \in DOMAIN prev |-> IF prev[i].id = tempId THEN real ELSE prev[i]]

replaceOptimisticMessage(prev, tempId, real) ==
    [i \in DOMAIN prev |->
        IF prev[i].id = tempId
        THEN [real EXCEPT !.isOptimistic = "false"]
        ELSE prev[i]]

\* .order('sent_at', {ascending: true}): sent_at is unique per row, so the
\* row at position i is the one with i - 1 rows before it
OrderBySentAt(rows) ==
    [i \in 1..Cardinality(rows) |->
        CHOOSE r \in rows :
            Cardinality({q \in rows : q.sent_at < r.sent_at}) = i - 1]

\* .limit(n)
Limit(list, n) == SubSeq(list, 1, IF Len(list) < n THEN Len(list) ELSE n)

\* the current_messages query of loadInitialMessages
QueryCurrentMessages(table, chat) ==
    Limit(OrderBySentAt({r \in table : r.chat_group_id = chat}), HistoryLimit)

\* (data || []).filter(validateMessage)
ValidMessages(data) == SelectSeq(data, validateMessage)

\* ------------------------------------------------------------ initial state
NoOp == [op |-> "none", id |-> SrvId(0), row |-> NoRow]

\* The components a specification does not exercise rest in these states.
HookIdle ==
    /\ chatGroupId = ""
    /\ phase = "unmounted"
    /\ messages = <<>>
    /\ isLoading = FALSE
    /\ error = Null
    /\ subscriptionRef = NoChannel
    /\ isAuthorizedRef = FALSE
    /\ inits = <<>>
    /\ channels = <<>>
    /\ db = {}
    /\ isAuthorized = FALSE
    /\ sends = <<>>
    /\ lastOp = NoOp
    /\ prevMessages = <<>>

DiscoveryIdle ==
    /\ userLocation = [latitude |-> 0, longitude |-> 0]
    /\ radiusKm = 0
    /\ supabaseClient = FALSE
    /\ chat_groups = {}
    /\ discPc = "idle"
    /\ requests = <<>>
    /\ discResult = <<>>
    /\ returnPath = "none"

MapIdle ==
    /\ screen = "none"
    /\ location = NoLocation
    /\ dateNow = 0
    /\ lastFetchLocationRef = NoFetch
    /\ fetchTimeoutRef = NoTimer
    /\ fetches = <<>>
    /\ nearbyGroups = 0
    /\ chatPins = 0
    /\ loadingGroups = FALSE
    /\ updates = 0

SendIdle ==
    /\ params = <<>>
    /\ sendPc = "idle"
    /\ sender = Null
    /\ calls = <<>>
    /\ sendResult = NoResult
    /\ recent = <<>>

ScreenIdle ==
    /\ isAuthenticated = FALSE
    /\ user = Null
    /\ currentUserId = ""
    /\ currentUserName = ""
    /\ authChecks = <<>>
    /\ optimistic = <<>>
    /\ authChanges = 0

IdentityIdle ==
    /\ nexu_device_id = NoDevice
    /\ generated = <<>>
    /\ anonymous_users = {}
    /\ identityCalls = <<>>

ParticipationIdle ==
    /\ nexu_joined_chats = <<>>
    /\ participation = <<>>
    /\ isoNow = 0
    /\ lastCompleted = [c \in RealChats |-> "none"]

ClientIdle == ScreenIdle /\ IdentityIdle /\ ParticipationIdle

ServicesIdle == DiscoveryIdle /\ MapIdle /\ SendIdle /\ ClientIdle

Init ==
    /\ chatGroupId \in ChatIds
    /\ phase = "rendered"
    /\ messages = <<>>
    /\ isLoading = TRUE
    /\ error = Null
    /\ subscriptionRef = NoChannel
    /\ isAuthorizedRef = FALSE
    /\ inits = <<>>
    /\ channels = <<>>
    /\ db = {}
    /\ joinedChats \in SUBSET RealChats
    /\ isAuthorized = FALSE
    /\ sends = <<>>
    /\ lastOp = NoOp
    /\ prevMessages = <<>>
    /\ ServicesIdle

Mounted == phase = "mounted"

\* a channel that still holds server-side resources and can deliver
Open(ch) == channels[ch].status # "closed"

\* ------------------------------------------------------------- the effect
\* Body of the effect for chat id c: an empty id clears isLoading and
\* returns without a cleanup function; otherwise initializeChat starts and
\* suspends in hasJoinedChat.
EffectBody(c) ==
    /\ inits' = Append(inits,
            [chat |-> c, pc |-> IF c = "" THEN "done" ELSE "checking",
             fetched |-> "none"])
    /\ isLoading' = IF c = "" THEN FALSE ELSE isLoading

\* Cleanup returned by the effect that ran for chat id c
Cleanup(c) ==
    IF c # "" /\ subscriptionRef # NoChannel
    THEN /\ channels' = [channels EXCEPT ![subscriptionRef] =
                            [@ EXCEPT !.status = "closed", !.queue = <<>>]]
         /\ subscriptionRef' = NoChannel
    ELSE UNCHANGED <<channels, subscriptionRef>>

\* first effect run after the first render
MountEffect ==
    /\ phase = "rendered"
    /\ phase' = "mounted"
    /\ EffectBody(chatGroupId)
    /\ UNCHANGED <<chatGroupId, messages, error, subscriptionRef, isAuthorizedRef,
                   channels, db, joinedChats, isAuthorized, sends, lastOp,
                   prevMessages, serviceVars>>

\* re-render with another chatGroupId: cleanup of the old effect, new effect
ChangeChat(c) ==
    /\ Mounted
    /\ c # chatGroupId
    /\ Len(inits) < MaxRuns
    /\ chatGroupId' = c
    /\ Cleanup(chatGroupId)
    /\ EffectBody(c)
    /\ UNCHANGED <<phase, messages, error, isAuthorizedRef, db, joinedChats,
                   isAuthorized, sends, lastOp, prevMessages, serviceVars>>

\* the chat view is closed
Unmount ==
    /\ Mounted
    /\ phase' = "unmounted"
    /\ Cleanup(chatGroupId)
    /\ UNCHANGED <<chatGroupId, messages, isLoading, error, isAuthorizedRef, inits,
                   db, joinedChats, isAuthorized, sends, lastOp, prevMessages, serviceVars>>

\* ---------------------------------------------------------- initializeChat
\* hasJoinedChat: some active record with this id; a failed storage read
\* yields false
hasJoinedChat(c, readOk) == readOk /\ c \in joinedChats

ErrorWhenNotJoined == NotJoinedError

\* hasJoinedChat settles: not joined -> error, isLoading false, return;
\* joined -> isAuthorizedRef, loadInitialMessages starts (isLoading true) and
\* suspends in the query
HasJoinedResolve(p, readOk) ==
    /\ inits[p].pc = "checking"
    /\ IF hasJoinedChat(inits[p].chat, readOk)
       THEN /\ isAuthorizedRef' = TRUE
            /\ isLoading' = IF Mounted THEN TRUE ELSE isLoading
            /\ inits' = [inits EXCEPT ![p].pc = "fetching"]
            /\ UNCHANGED error
       ELSE /\ error' = IF Mounted THEN ErrorWhenNotJoined ELSE error
            /\ isLoading' = IF Mounted THEN FALSE ELSE isLoading
            /\ inits' = [inits EXCEPT ![p].pc = "done"]
            /\ UNCHANGED isAuthorizedRef
    /\ UNCHANGED <<chatGroupId, phase, messages, subscriptionRef, channels, db,
                   joinedChats, isAuthorized, sends, lastOp, prevMessages, serviceVars>>

\* setupRealTimeSubscription: a new channel, kept in subscriptionRef
SetupRealTimeSubscription(c) ==
    IF isAuthorizedRef
    THEN /\ channels' = Append(channels,
                [chat |-> c, status |-> "joining", queue |-> <<>>])
         /\ subscriptionRef' = Len(channels) + 1
    ELSE UNCHANGED <<channels, subscriptionRef>>

\* the query of loadInitialMessages succeeds; initializeChat then sets up the
\* subscription
FetchSucceed(p) ==
    /\ inits[p].pc = "fetching"
    /\ LET valid == ValidMessages(QueryCurrentMessages(db, inits[p].chat))
       IN  /\ messages' = IF Mounted THEN valid ELSE messages
    /\ error' = IF Mounted THEN Null ELSE error
    /\ isLoading' = IF Mounted THEN FALSE ELSE isLoading
    /\ inits' = [inits EXCEPT ![p].pc = "done", ![p].fetched = "ok"]
    /\ SetupRealTimeSubscription(inits[p].chat)
    /\ UNCHANGED <<chatGroupId, phase, isAuthorizedRef, db, joinedChats,
                   isAuthorized, sends, lastOp, prevMessages, serviceVars>>

ErrorAfterFetchFailureNone == Null

ErrorAfterFetchFailure == LoadFailedError

FetchFailBlanksList(p) ==
    /\ inits[p].pc = "fetching"
    /\ error' = IF Mounted THEN ErrorAfterFetchFailure ELSE error
    /\ isLoading' = IF Mounted THEN FALSE ELSE isLoading
    /\ messages' = IF Mounted THEN <<>> ELSE messages
    /\ inits' = [inits EXCEPT ![p].pc = "done", ![p].fetched = "failed"]
    /\ SetupRealTimeSubscription(inits[p].chat)
    /\ UNCHANGED <<chatGroupId, phase, isAuthorizedRef, db, joinedChats,
                   isAuthorized, sends, lastOp, prevMessages, serviceVars>>

\* the query fails: the error is swallowed by loadInitialMessages, so
\* initializeChat still sets up the subscription
FetchFail(p) ==
    /\ inits[p].pc = "fetching"
    /\ error' = IF Mounted THEN ErrorAfterFetchFailure ELSE error
    /\ isLoading' = IF Mounted THEN FALSE ELSE isLoading
    /\ inits' = [inits EXCEPT ![p].pc = "done", ![p].fetched = "failed"]
    /\ SetupRealTimeSubscription(inits[p].chat)
    /\ UNCHANGED <<chatGroupId, phase, messages, isAuthorizedRef, db, joinedChats,
                   isAuthorized, sends, lastOp, prevMessages, serviceVars>>

\* ------------------------------------------------------------ push channel
\* subscribe status callback: SUBSCRIBED only logs
ChannelSubscribed(ch) ==
    /\ channels[ch].status = "joining"
    /\ channels' = [channels EXCEPT ![ch].status = "SUBSCRIBED"]
    /\ UNCHANGED <<chatGroupId, phase, messages, isLoading, error, subscriptionRef,
                   isAuthorizedRef, inits, db, joinedChats, isAuthorized, sends,
                   lastOp, prevMessages, serviceVars>>

\* subscribe status callback: CHANNEL_ERROR sets the error
ChannelError(ch) ==
    /\ channels[ch].status \in {"joining", "SUBSCRIBED"}
    /\ channels' = [channels EXCEPT ![ch] =
                        [@ EXCEPT !.status = "CHANNEL_ERROR", !.queue = <<>>]]
    /\ error' = IF Mounted THEN ConnectionLostError ELSE error
    /\ UNCHANGED <<chatGroupId, phase, messages, isLoading, subscriptionRef,
                   isAuthorizedRef, inits, db, joinedChats, isAuthorized, sends,
                   lastOp, prevMessages, serviceVars>>

\* delivery of the oldest pending INSERT event of a channel to its handler
PushDeliver(ch) ==
    /\ channels[ch].status = "SUBSCRIBED"
    /\ channels[ch].queue # <<>>
    /\ LET row == Head(channels[ch].queue)
       IN  messages' = IF Mounted THEN OnInsertEvent(messages, row) ELSE messages
    /\ channels' = [channels EXCEPT ![ch].queue = Tail(@)]
    /\ UNCHANGED <<chatGroupId, phase, isLoading, error, subscriptionRef,
                   isAuthorizedRef, inits, db, joinedChats, isAuthorized, sends,
                   lastOp, prevMessages, serviceVars>>

\* --------------------------------------------------------------- the server
\* A committed row is published, in commit order, to every established
\* channel filtered on its chat.
Publish(chs, row) ==
    [ch \in DOMAIN chs |->
        IF chs[ch].status = "SUBSCRIBED" /\ chs[ch].chat = row.chat_group_id
        THEN [chs[ch] EXCEPT !.queue = Append(@, row)]
        ELSE chs[ch]]

Now == Cardinality(db) + 1

\* <<sender_type, missing columns>> of the rows other senders commit: a well
\* formed row and a row the client does not recognise
RowShapes == { <<"user", {}>>, <<"system", {}>> }

\* Another sender's row is committed to chat c. Rows of a chat that is not
\* joined are never fetched nor pushed to this client, so only joined chats
\* are followed.
OtherSenderInsert(c, shape) ==
    /\ Cardinality(db) < MaxRows
    /\ LET row == ServerRow(Now, c, shape[1], "other", shape[2])
       IN  /\ db' = db \cup {row}
           /\ channels' = Publish(channels, row)
    /\ UNCHANGED <<chatGroupId, phase, messages, isLoading, error, subscriptionRef,
                   isAuthorizedRef, inits, joinedChats, isAuthorized, sends, lastOp,
                   prevMessages, serviceVars>>

\* ------------------------------------------------------------- ChatScreen
\* checkAuthorization settles for a joined chat: isAuthorized and
\* currentUserId are set and never cleared afterwards
CheckAuthorization ==
    /\ Mounted
    /\ ~isAuthorized
    /\ hasJoinedChat(chatGroupId, TRUE)
    /\ isAuthorized' = TRUE
    /\ UNCHANGED <<chatGroupId, phase, messages, isLoading, error, subscriptionRef,
                   isAuthorizedRef, inits, channels, db, joinedChats, sends, lastOp,
                   prevMessages, serviceVars>>

\* handleSendMessage up to its await: optimistic entry added, sendMessage called
HandleSendMessage ==
    /\ Mounted
    /\ isAuthorized
    /\ Len(sends) < MaxSends
    /\ LET tempId == TempId(Len(sends) + 1)
       IN  /\ messages' = addOptimisticMessage(messages, tempId, chatGroupId, Now)
           /\ sends' = Append(sends,
                  [chat |-> chatGroupId, tempId |-> tempId, pc |-> "sending",
                   row |-> NoRow, applied |-> {}])
    /\ UNCHANGED <<chatGroupId, phase, isLoading, error, subscriptionRef,
                   isAuthorizedRef, inits, channels, db, joinedChats, isAuthorized,
                   lastOp, prevMessages, serviceVars>>

\* sendMessage passed its checks (chat joined, rate limit) and the insert is
\* committed by the server; the response is still on its way
SendInsert(s) ==
    /\ sends[s].pc = "sending"
    /\ hasJoinedChat(sends[s].chat, TRUE)
    /\ Cardinality(db) < MaxRows
    /\ LET row == ServerRow(Now, sends[s].chat, "anonymous", "me", {})
       IN  /\ db' = db \cup {row}
           /\ channels' = Publish(channels, row)
           /\ sends' = [sends EXCEPT ![s].pc = "inserted", ![s].row = row]
    /\ UNCHANGED <<chatGroupId, phase, messages, isLoading, error, subscriptionRef,
                   isAuthorizedRef, inits, joinedChats, isAuthorized, lastOp,
                   prevMessages, serviceVars>>

\* sendMessage resolves {success: true, message}: the optimistic entry is replaced
SendSettleSuccess(s) ==
    /\ sends[s].pc = "inserted"
    /\ messages' = IF Mounted
                   THEN replaceOptimisticMessage(messages, sends[s].tempId, sends[s].row)
                   ELSE messages
    /\ sends' = [sends EXCEPT ![s].pc = "done",
                                ![s].applied = @ \cup {"replaced"}]
    /\ UNCHANGED <<chatGroupId, phase, isLoading, error, subscriptionRef,
                   isAuthorizedRef, inits, channels, db, joinedChats, isAuthorized,
                   lastOp, prevMessages, serviceVars>>

\* sendMessage resolves {success: false}: the else branch removes the entry and
\* throws, and the catch block removes it again
SendSettleFail(s) ==
    /\ sends[s].pc = "sending"
    /\ messages' = IF Mounted
                   THEN removeOptimisticMessage(
                            removeOptimisticMessage(messages, sends[s].tempId),
                            sends[s].tempId)
                   ELSE messages
    /\ sends' = [sends EXCEPT ![s].pc = "done",
                                ![s].applied = (@ \cup {"removed"}) \cup {"removed"}]
    /\ UNCHANGED <<chatGroupId, phase, isLoading, error, subscriptionRef,
                   isAuthorizedRef, inits, channels, db, joinedChats, isAuthorized,
                   lastOp, prevMessages, serviceVars>>

\* ------------------------------------------------------------ specification
Next ==
    \/ MountEffect
    \/ \E c \in ChatIds : ChangeChat(c)
    \/ Unmount
    \/ \E p \in DOMAIN inits : \E readOk \in BOOLEAN : HasJoinedResolve(p, readOk)
    \/ \E p \in DOMAIN inits : FetchSucceed(p)
    \/ \E p \in DOMAIN inits : FetchFail(p)
    \/ \E ch \in DOMAIN channels : ChannelSubscribed(ch)
    \/ \E ch \in DOMAIN channels : ChannelError(ch)
    \/ \E ch \in DOMAIN channels : PushDeliver(ch)
    \/ \E c \in joinedChats : \E shape \in RowShapes : OtherSenderInsert(c, shape)
    \/ CheckAuthorization
    \/ HandleSendMessage
    \/ \E s \in DOMAIN sends : SendInsert(s)
    \/ \E s \in DOMAIN sends : SendSettleSuccess(s)
    \/ \E s \in DOMAIN sends : SendSettleFail(s)

Spec == Init /\ [][Next]_vars

\* ------------------------------------------------------ claims on the hook
Ready == isLoading = FALSE /\ error = Null

\* initializeChat call p belongs to an effect that has been cleaned up
TornDown(p) == phase = "unmounted" \/ p < Len(inits)

Sorted(list) ==
    \A i, j \in DOMAIN list : i < j => list[i].sent_at <= list[j].sent_at

\* C1: under every interleaving of history load, push events and the
\* optimistic add / replace / remove, the list holds at most one entry per
\* message id, also when the push echo of a sent message is delivered before
\* replaceOptimisticMessage is applied.
C1_AtMostOneEntryPerId ==
    \A i, j \in DOMAIN messages : i # j => messages[i].id # messages[j].id

\* C2: once the sendMessage call of a handleSendMessage settles, the list of
\* the mounted hook holds no entry with that call's temporary id, and exactly
\* one of the two outcomes was applied: the replacement when the send
\* succeeded, the removal when it failed.
C2_OptimisticEntrySettled ==
    \A s \in DOMAIN sends :
        sends[s].pc = "done" =>
            /\ Mounted => sends[s].tempId \notin Ids(messages)
            /\ Cardinality(sends[s].applied) = 1
            /\ sends[s].applied = IF sends[s].row # NoRow
                                  THEN {"replaced"} ELSE {"removed"}

\* C2 witness: a send was confirmed on a live list; its temporary entry is
\* gone, the confirmed row stands in the list and nothing is left optimistic.
C2_Witness ==
    /\ Mounted
    /\ \E s \in DOMAIN sends :
          /\ sends[s].pc = "done"
          /\ sends[s].applied = {"replaced"}
          /\ sends[s].row.id \in Ids(messages)
          /\ \A i \in DOMAIN messages : messages[i].isOptimistic # "true"

\* C3: after the chat view is closed (unmount, or another chatGroupId), no
\* push subscription of the closed chat stays open: every open channel
\* belongs to the chat the mounted hook currently shows.
C3_NoChannelOutlivesItsChat ==
    \A ch \in DOMAIN channels :
        Open(ch) => Mounted /\ channels[ch].chat = chatGroupId

\* C4: a step of an initializeChat call whose effect was already cleaned up
\* (its authorization check or its history fetch completing late) leaves
\* messages, isLoading and error unchanged.
C4_LateCompletionChangesNothing ==
    [][\A p \in DOMAIN inits :
          (TornDown(p) /\ inits'[p] # inits[p])
              => UNCHANGED <<messages, isLoading, error>>]_vars

\* C8: with push events delivered in commit order, the list is sorted by
\* sent_at ascending in every state after a successful history load. Stated
\* for a hook that was opened once on its chat and is still mounted.
C8_SortedAfterHistoryLoad ==
    (Mounted /\ Len(inits) = 1 /\ inits[1].fetched = "ok") => Sorted(messages)

\* C10 as claimed: the hook opened on a chat is Ready (isLoading false, error
\* null) only after the history fetch has succeeded and the push subscription
\* has been established.
C10_ReadyOnlyAfterFetchAndSubscription ==
    (Mounted /\ Len(inits) = 1 /\ chatGroupId # "" /\ Ready) =>
        /\ inits[1].fetched = "ok"
        /\ subscriptionRef # NoChannel
        /\ channels[subscriptionRef].status = "SUBSCRIBED"

\* C10 amended: the hook enters Ready only in the step in which a history
\* fetch succeeds, or in an effect run with an empty chatGroupId; the push
\* subscription is opened in that same step and is not yet established.
C10_ReadyOnFetchSuccess ==
    [][/\ (~Ready /\ Ready') =>
            \/ Len(inits') > Len(inits) /\ chatGroupId' = ""
            \/ \E p \in DOMAIN inits :
                   inits[p].pc = "fetching" /\ inits'[p].fetched = "ok"
       /\ \A p \in DOMAIN inits :
            (inits[p].pc = "fetching" /\ inits'[p].fetched = "ok") =>
                /\ subscriptionRef' = Len(channels')
                /\ channels'[subscriptionRef'].status = "joining"]_vars

\* C10 witness: Ready on a loaded chat while its channel is still joining
C10_Witness ==
    /\ Mounted /\ Ready /\ chatGroupId # ""
    /\ inits[Len(inits)].fetched = "ok"
    /\ subscriptionRef # NoChannel
    /\ channels[subscriptionRef].status = "joining"

\* C11: a history fetch that fails, or a CHANNEL_ERROR status of a push
\* channel, sets the error of the mounted hook (Error state) and leaves the
\* message list, populated or not, exactly as it was.
C11_ErrorSetListKept ==
    [][(Mounted /\
         \/ \E p \in DOMAIN inits :
                inits[p].pc = "fetching" /\ inits'[p].fetched = "failed"
         \/ \E ch \in DOMAIN channels :
                /\ channels[ch].status # "CHANNEL_ERROR"
                /\ channels'[ch].status = "CHANNEL_ERROR")
            => (error' # Null /\ messages' = messages)]_vars

\* C11 witness: a fetch failed and a channel error was reported afterwards,
\* and the mounted hook still shows a populated list
C11_Witness ==
    /\ Mounted
    /\ error = ConnectionLostError
    /\ messages # <<>>
    /\ \E p \in DOMAIN inits : inits[p].fetched = "failed"

\* C12: while the mounted hook shows a chat that is not in the joined set and
\* its authorization check has settled, the hook is Unauthorized (the
\* not-joined error stands) and holds no push subscription.
C12_UnauthorizedIsTerminal ==
    (/\ Mounted
     /\ chatGroupId \in RealChats \ joinedChats
     /\ inits[Len(inits)].pc = "done")
        => (error = NotJoinedError /\ subscriptionRef = NoChannel)

\* ------------------------------------------- the history query on its own
\* A visible window of n rows of chat "A", committed one after the other
Window(n) == {ServerRow(i, "A", "user", "other", {}) : i \in 1..n}

\* The hook is mounted on the joined chat "A" and loadInitialMessages is
\* suspended in its query, for every size of the window.
InitHistory ==
    /\ db \in {Window(n) : n \in 0..MaxWindow}
    /\ chatGroupId = "A"
    /\ phase = "mounted"
    /\ messages = <<>>
    /\ isLoading = TRUE
    /\ error = Null
    /\ subscriptionRef = NoChannel
    /\ isAuthorizedRef = TRUE
    /\ inits = <<[chat |-> "A", pc |-> "fetching", fetched |-> "none"]>>
    /\ channels = <<>>
    /\ joinedChats = {"A"}
    /\ isAuthorized = FALSE
    /\ sends = <<>>
    /\ lastOp = NoOp
    /\ prevMessages = <<>>
    /\ ServicesIdle

NextHistory ==
    \/ FetchSucceed(1)
    \/ FetchFail(1)

SpecHistory == InitHistory /\ [][NextHistory]_vars

\* C9: when the visible window holds more than 100 rows, the history load
\* yields the 100 most recent of them, oldest first.
C9_LoadsMostRecentHundred ==
    (inits[1].fetched = "ok" /\ Cardinality(db) > HistoryLimit) =>
        /\ Len(messages) = HistoryLimit
        /\ \A i \in 1..HistoryLimit :
              messages[i].sent_at = Cardinality(db) - HistoryLimit + i

\* ------------------------------------------- the list operations on their own
\* Entries a list can hold: rows of a history load (flag undefined), rows
\* confirmed by a push or a send result (flag false), optimistic entries.
OpsRow(n) == ServerRow(n, "A", "user", "other", {})

OpsEntries ==
    {OpsRow(n) : n \in 1..MaxIds}
        \cup {[OpsRow(n) EXCEPT !.isOptimistic = "false"] : n \in 1..MaxIds}
        \cup {OptimisticMessage(TempId(k), "A", k) : k \in 1..MaxIds}

\* Lists the hook can hold: the rows of the last history load come first, in
\* sent_at order, everything added later follows; temporary ids are unique.
ReachableList(l) ==
    /\ \A i, j \in DOMAIN l :
          (i < j /\ l[j].isOptimistic = "undefined") =>
              l[i].isOptimistic = "undefined" /\ l[i].sent_at < l[j].sent_at
    /\ \A i, j \in DOMAIN l :
          (i # j /\ l[i].isOptimistic = "true") => l[i].id # l[j].id

OpsLists ==
    {l \in UNION {[1..n -> OpsEntries] : n \in 0..MaxLen} : ReachableList(l)}

\* rows a push event can carry: known and new ids, and malformed rows
OpsPushRows ==
    {OpsRow(n) : n \in 1..(MaxIds + 1)}
        \cup {ServerRow(MaxIds + 1, "A", "system", "other", {}),
              ServerRow(MaxIds + 1, "A", "user", "other", {"display_name"}),
              ServerRow(MaxIds + 1, "A", "user", "other", {"content"})}

InitOps ==
    /\ messages \in OpsLists
    /\ lastOp = NoOp
    /\ prevMessages = <<>>
    /\ chatGroupId = "A"
    /\ phase = "mounted"
    /\ isLoading = FALSE
    /\ error = Null
    /\ subscriptionRef = NoChannel
    /\ isAuthorizedRef = TRUE
    /\ inits = <<[chat |-> "A", pc |-> "done", fetched |-> "ok"]>>
    /\ channels = <<>>
    /\ db = {}
    /\ joinedChats = {"A"}
    /\ isAuthorized = TRUE
    /\ sends = <<>>
    /\ ServicesIdle

OpsFrame ==
    UNCHANGED <<chatGroupId, phase, isLoading, error, subscriptionRef,
                isAuthorizedRef, inits, channels, db, joinedChats, isAuthorized,
                sends, serviceVars>>

\* the postgres_changes handler on a pushed row
OpsPush(row) ==
    /\ lastOp.op = "none"
    /\ messages' = OnInsertEvent(messages, row)
    /\ lastOp' = [op |-> "push", id |-> row.id, row |-> row]
    /\ prevMessages' = messages
    /\ OpsFrame

\* the same event once more
OpsPushAgain ==
    /\ lastOp.op = "push"
    /\ messages' = OnInsertEvent(messages, lastOp.row)
    /\ lastOp' = [lastOp EXCEPT !.op = "pushAgain"]
    /\ prevMessages' = messages
    /\ OpsFrame

OpsReplace(k, n) ==
    /\ lastOp.op = "none"
    /\ messages' = replaceOptimisticMessage(messages, TempId(k), OpsRow(n))
    /\ lastOp' = [op |-> "replace", id |-> TempId(k), row |-> OpsRow(n)]
    /\ prevMessages' = messages
    /\ OpsFrame

OpsRemove(k) ==
    /\ lastOp.op = "none"
    /\ messages' = removeOptimisticMessage(messages, TempId(k))
    /\ lastOp' = [NoOp EXCEPT !.op = "remove", !.id = TempId(k)]
    /\ prevMessages' = messages
    /\ OpsFrame

NextOps ==
    \/ \E row \in OpsPushRows : OpsPush(row)
    \/ OpsPushAgain
    \/ \E k \in 1..MaxIds : \E n \in 1..(MaxIds + 1) : OpsReplace(k, n)
    \/ \E k \in 1..MaxIds : OpsRemove(k)

SpecOps == InitOps /\ [][NextOps]_vars

Confirmed(row) == [row EXCEPT !.isOptimistic = "false"]

Positions(list, id) == {i \in DOMAIN list : list[i].id = id}

\* C5: applying the same valid push-insert event a second time changes
\* neither the length, the order nor the ids of the list.
C5_PushIsIdempotent ==
    lastOp.op = "pushAgain" =>
        /\ Len(messages) = Len(prevMessages)
        /\ \A i \in DOMAIN messages : messages[i].id = prevMessages[i].id
        /\ messages = prevMessages

\* C5 witness: a valid event was applied twice and its row is in the list
C5_Witness ==
    /\ lastOp.op = "pushAgain"
    /\ validateMessage(lastOp.row)
    /\ Cardinality(Positions(messages, lastOp.id)) = 1
    /\ Len(messages) > 1

\* C6: a valid push-insert event whose id is in the list replaces that entry
\* at its index by the pushed row, not optimistic, and leaves every other
\* entry and the length alone; otherwise the pushed row becomes the last
\* entry and the earlier entries are unchanged.
C6_PushReplacesInPlaceOrAppends ==
    (lastOp.op = "push" /\ validateMessage(lastOp.row)) =>
        IF Positions(prevMessages, lastOp.id) # {}
        THEN /\ Len(messages) = Len(prevMessages)
             /\ \A i \in DOMAIN prevMessages :
                   messages[i] = IF i \in Positions(prevMessages, lastOp.id)
                                 THEN Confirmed(lastOp.row)
                                 ELSE prevMessages[i]
        ELSE /\ Len(messages) = Len(prevMessages) + 1
             /\ messages[Len(messages)] = Confirmed(lastOp.row)
             /\ \A i \in DOMAIN prevMessages : messages[i] = prevMessages[i]

\* C6 witness: history [a, b] and a push for a give [a, b], a not optimistic
C6_Witness ==
    /\ lastOp.op = "push"
    /\ lastOp.id = SrvId(1)
    /\ prevMessages = <<OpsRow(1), OpsRow(2)>>
    /\ messages = <<Confirmed(OpsRow(1)), OpsRow(2)>>

\* C7: replaceOptimisticMessage puts the confirmed message, flag cleared, at
\* the index of the entry with the temporary id and changes nothing else;
\* removeOptimisticMessage deletes exactly that entry and keeps the others in
\* their order.
C7_ReplaceAndRemoveTouchOnlyTheEntry ==
    LET hits == Positions(prevMessages, lastOp.id)
    IN  /\ lastOp.op = "replace" =>
              /\ Len(messages) = Len(prevMessages)
              /\ Cardinality(hits) <= 1
              /\ \A i \in DOMAIN prevMessages :
                    messages[i] = IF i \in hits
                                  THEN Confirmed(lastOp.row)
                                  ELSE prevMessages[i]
        /\ lastOp.op = "remove" =>
              /\ Cardinality(hits) <= 1
              /\ hits = {} => messages = prevMessages
              /\ \A k \in hits :
                    messages = SubSeq(prevMessages, 1, k - 1)
                                 \o SubSeq(prevMessages, k + 1, Len(prevMessages))

\* C7 witness: the optimistic entry stood between two others and was replaced
C7_Witness ==
    /\ lastOp.op = "replace"
    /\ Len(prevMessages) = 3
    /\ prevMessages[2].id = lastOp.id
    /\ messages[2] = Confirmed(lastOp.row)
    /\ messages[1] = prevMessages[1]
    /\ messages[3] = prevMessages[3]

\* ------------------------------------------------- nearby-group discovery
\* One call of getNearbyChatsGroups(userLocation, radiusKm).
\*
\* Coordinates are whole grid steps of 0.0005 degrees next to latitude 0,
\* where cos(lat) is 1 to eight decimals; for points a few kilometres apart
\* the haversine formula then gives
\*     6371 km * pi/180 * 0.0005 * sqrt(dLat^2 + dLng^2).
\* A distance is kept as its square, in square metres: the code only compares
\* distances (<= radiusKm, a.distance - b.distance), and squaring keeps the
\* order. radiusKm is held in metres. A coordinate of 0 is the falsy 0.
MaxGroups == 4      \* rows of the chat_groups table

SquareMetresPerStep == 3091

calculateDistance(lat1, lng1, lat2, lng2) ==
    SquareMetresPerStep *
        ((lat2 - lat1) * (lat2 - lat1) + (lng2 - lng1) * (lng2 - lng1))

PrimaryLimit == 100
PrimaryResultLimit == 50
SimplifiedLimit == 50
SimplifiedResultLimit == 20

NoDistance == 0 - 1
NoActivity == 0

GroupId(i) == <<"chat", i>>

RECURSIVE Power(_, _)
Power(b, n) == IF n = 0 THEN 1 ELSE b * Power(b, n - 1)

\* Row i of chat_groups lies 5^(i-1) steps north of the point (10, 10):
\* 56 m, 278 m, 1.4 km, 6.9 km; later rows were active more recently.
GroupRow(i, active) ==
    [id |-> GroupId(i), lat |-> 10 + Power(5, i - 1), lng |-> 10,
     last_activity |-> i, is_active |-> active]

GroupTables ==
    {t \in SUBSET {GroupRow(i, a) : i \in 1..MaxGroups, a \in BOOLEAN} :
        \A r, q \in t : r.id = q.id => r = q}

\* the caller's position: the point (10, 10), and a point on the equator
Origins == {[latitude |-> 10, longitude |-> 10], [latitude |-> 0, longitude |-> 10]}

\* requested radius: 250 m and the 5 km the map screen asks for
Radii == {250, 5000}

\* A ChatGroup as the call returns it; the sample groups carry no distance.
ChatGroup(id, lat, lng, activity, distance) ==
    [id |-> id, lat |-> lat, lng |-> lng, last_activity |-> activity,
     distance |-> distance]

\* offsets of 0.002, -0.0015, 0.003 and 0.001 degrees are 4, -3, 6 and 2 steps
getMockNearbyChats(loc) ==
    << ChatGroup(<<"mock-study-group", 0>>, loc.latitude + 4, loc.longitude + 4,
                 NoActivity, NoDistance),
       ChatGroup(<<"mock-coffee-chat", 0>>, loc.latitude - 3, loc.longitude - 3,
                 NoActivity, NoDistance),
       ChatGroup(<<"mock-event-group", 0>>, loc.latitude + 6, loc.longitude + 2,
                 NoActivity, NoDistance) >>

retryableCodes == {"PGRST301", "PGRST302", "08006", "08001", "08004"}
retryableMessages == {"timeout", "connection", "network", "unavailable"}

\* An error object of the remote client: its code, and which of the words
\* above its lower-cased message contains.
RemoteErrors ==
    { [code |-> "PGRST301", contains |-> {}],
      [code |-> "57014", contains |-> {"timeout"}],
      [code |-> "", contains |-> {"network"}],
      [code |-> "42501", contains |-> {}] }

NoError == [code |-> "", contains |-> {}]

isRetryableError(e) ==
    e.code \in retryableCodes \/ retryableMessages \cap e.contains # {}

\* rows in the order of last_activity, most recent first when descending
RECURSIVE OrderRows(_, _)
OrderRows(rows, descending) ==
    IF rows = {} THEN <<>>
    ELSE LET first == CHOOSE r \in rows : \A q \in rows :
                          IF descending THEN r.last_activity >= q.last_activity
                                        ELSE r.last_activity <= q.last_activity
         IN  <<first>> \o OrderRows(rows \ {first}, descending)

\* .eq('is_active', true).order('last_activity', desc).limit(100)
PrimaryQuery(table) ==
    Limit(OrderRows({r \in table : r.is_active}, TRUE), PrimaryLimit)

\* .eq('is_active', true).limit(50): without an order clause the server
\* picks the order, here one of two
SimplifiedQuery(table, descending) ==
    Limit(OrderRows({r \in table : r.is_active}, descending), SimplifiedLimit)

\* .map(...): the row with its distance from the caller
WithDistance(data, loc, withActivity) ==
    [i \in DOMAIN data |->
        ChatGroup(data[i].id, data[i].lat, data[i].lng,
                  IF withActivity THEN data[i].last_activity ELSE NoActivity,
                  calculateDistance(loc.latitude, loc.longitude,
                                    data[i].lat, data[i].lng))]

\* group.distance <= radiusKm
WithinRadius(distance, radius) == distance <= radius * radius

\* .sort((a, b) => a.distance - b.distance), a stable sort
RECURSIVE SortByDistance(_)
SortByDistance(list) ==
    IF list = <<>> THEN <<>>
    ELSE LET k == CHOOSE i \in DOMAIN list :
                      /\ \A j \in DOMAIN list : list[i].distance <= list[j].distance
                      /\ \A j \in 1..(i - 1) : list[j].distance > list[i].distance
         IN  <<list[k]>> \o
             SortByDistance(SubSeq(list, 1, k - 1) \o SubSeq(list, k + 1, Len(list)))

\* .map(...).filter(...).sort(...).slice(0, cap)
NearbyOf(data, loc, radius, withActivity, cap) ==
    Limit(SortByDistance(
              SelectSeq(WithDistance(data, loc, withActivity),
                        LAMBDA g : WithinRadius(g.distance, radius))),
          cap)

Request(kind) == [kind |-> kind, outcome |-> "pending", error |-> NoError]

\* the pending request settles
Settle(outcome, e) ==
    [requests EXCEPT ![Len(requests)] = [@ EXCEPT !.outcome = outcome, !.error = e]]

\* the call resolves with a list
Return(list, path) ==
    /\ discResult' = list
    /\ returnPath' = path
    /\ discPc' = "returned"

DiscoveryFrame ==
    /\ UNCHANGED <<userLocation, radiusKm, supabaseClient, chat_groups>>
    /\ UNCHANGED <<chatGroupId, phase, messages, isLoading, error, subscriptionRef,
                   isAuthorizedRef, inits, channels, db, joinedChats, isAuthorized,
                   sends, lastOp, prevMessages, mapVars, sendVars, clientVars>>

InitDiscovery ==
    /\ userLocation \in Origins
    /\ radiusKm \in Radii
    /\ supabaseClient \in BOOLEAN
    /\ chat_groups \in GroupTables
    /\ discPc = "called"
    /\ requests = <<>>
    /\ discResult = <<>>
    /\ returnPath = "none"
    /\ HookIdle
    /\ joinedChats = {}
    /\ MapIdle
    /\ SendIdle
    /\ ClientIdle

\* entry of getNearbyChatsGroups up to the primary query: a falsy latitude
\* or longitude, or a missing client, returns the sample groups
GetNearbyChatsGroups ==
    /\ discPc = "called"
    /\ IF userLocation.latitude = 0 \/ userLocation.longitude = 0
       THEN Return(getMockNearbyChats(userLocation), "sample") /\ UNCHANGED requests
       ELSE IF ~supabaseClient
       THEN Return(getMockNearbyChats(userLocation), "sample") /\ UNCHANGED requests
       ELSE /\ requests' = <<Request("primary")>>
            /\ discPc' = "primary"
            /\ UNCHANGED <<discResult, returnPath>>
    /\ DiscoveryFrame

\* the primary query resolves with rows
PrimaryData ==
    /\ discPc = "primary"
    /\ requests' = Settle("data", NoError)
    /\ LET chatGroups == PrimaryQuery(chat_groups)
       IN  IF chatGroups = <<>>
           THEN Return(<<>>, "primary")
           ELSE Return(NearbyOf(chatGroups, userLocation, radiusKm, TRUE,
                                PrimaryResultLimit), "primary")
    /\ DiscoveryFrame

\* attemptSimplifiedQuery is entered: its request is issued
AttemptSimplifiedQuery ==
    /\ discPc' = "simplified"
    /\ UNCHANGED <<discResult, returnPath>>

\* the primary query resolves with an error object
PrimaryError(e) ==
    /\ discPc = "primary"
    /\ IF isRetryableError(e)
       THEN /\ requests' = Append(Settle("error", e), Request("simplified"))
            /\ AttemptSimplifiedQuery
       ELSE /\ requests' = Settle("error", e)
            /\ Return(getMockNearbyChats(userLocation), "sample")
    /\ DiscoveryFrame

\* the 10 s timer wins the race: the rejection lands in the catch block
PrimaryTimeout ==
    /\ discPc = "primary"
    /\ requests' = Settle("timeout", NoError)
    /\ Return(getMockNearbyChats(userLocation), "sample")
    /\ DiscoveryFrame

\* the simplified query resolves with rows
SimplifiedData(descending) ==
    /\ discPc = "simplified"
    /\ requests' = Settle("data", NoError)
    /\ LET data == SimplifiedQuery(chat_groups, descending)
       IN  IF data = <<>>
           THEN Return(<<>>, "simplified")
           ELSE Return(NearbyOf(data, userLocation, radiusKm, FALSE,
                                SimplifiedResultLimit), "simplified")
    /\ DiscoveryFrame

\* the simplified query resolves with an error object
SimplifiedError(e) ==
    /\ discPc = "simplified"
    /\ requests' = Settle("error", e)
    /\ Return(getMockNearbyChats(userLocation), "sample")
    /\ DiscoveryFrame

SimplifiedTimeoutUncaught ==
    /\ discPc = "simplified"
    /\ requests' = Settle("timeout", NoError)
    /\ discPc' = "thrown"
    /\ UNCHANGED <<discResult, returnPath>>
    /\ DiscoveryFrame

\* the 5 s timer wins the race: caught inside attemptSimplifiedQuery
SimplifiedTimeout ==
    /\ discPc = "simplified"
    /\ requests' = Settle("timeout", NoError)
    /\ Return(getMockNearbyChats(userLocation), "sample")
    /\ DiscoveryFrame

NextDiscovery ==
    \/ GetNearbyChatsGroups
    \/ PrimaryData
    \/ \E e \in RemoteErrors : PrimaryError(e)
    \/ PrimaryTimeout
    \/ \E descending \in BOOLEAN : SimplifiedData(descending)
    \/ \E e \in RemoteErrors : SimplifiedError(e)
    \/ SimplifiedTimeout

SpecDiscovery == InitDiscovery /\ [][NextDiscovery]_vars

\* The call runs once made, and a request that stays pending loses the race
\* against its timer.
SpecDiscoveryFair ==
    /\ SpecDiscovery
    /\ WF_vars(GetNearbyChatsGroups)
    /\ WF_vars(PrimaryTimeout)
    /\ WF_vars(SimplifiedTimeout)

\* distance of a returned group from the caller
DistanceFrom(loc, g) == calculateDistance(loc.latitude, loc.longitude, g.lat, g.lng)

Returned == discPc = "returned"

\* C13 as claimed: a call whose primary query timed out has attempted the
\* simplified query once before it returns.
C13_TimeoutRetriesOnce ==
    (Returned /\ requests # <<>> /\ requests[1].outcome = "timeout") =>
        /\ Len(requests) = 2
        /\ requests[2].kind = "simplified"

C14_Safe ==
    /\ discPc # "thrown"
    /\ Len(requests) <= 2
    /\ \A i \in DOMAIN requests :
          requests[i].kind = IF i = 1 THEN "primary" ELSE "simplified"
    /\ (requests # <<>> /\ requests[1].outcome = "error") =>
          IF isRetryableError(requests[1].error)
          THEN Len(requests) = 2
          ELSE Len(requests) = 1 /\ Returned
                  /\ discResult = getMockNearbyChats(userLocation)
    /\ (Len(requests) = 2 /\ requests[2].outcome \in {"error", "timeout"}) =>
          Returned /\ discResult = getMockNearbyChats(userLocation)
    /\ (~supabaseClient /\ discPc # "called") =>
          Returned /\ requests = <<>>
                   /\ discResult = getMockNearbyChats(userLocation)

\* C14: a primary error classified retryable is followed by exactly one
\* simplified request and no request is ever issued after that one; a
\* non-retryable primary error, a failed simplified request or a missing
\* client make the call return the sample groups; the call never throws and
\* always ends by returning a list.
C14_OneRetryThenSampleNeverThrows ==
    []C14_Safe /\ <>Returned

\* C14 witness: retryable primary error, the simplified request timed out,
\* the sample groups were returned
C14_Witness ==
    /\ Returned
    /\ Len(requests) = 2
    /\ requests[1].outcome = "error"
    /\ requests[2].outcome = "timeout"
    /\ discResult = getMockNearbyChats(userLocation)

\* C15: a call that ends in a timeout of the last request it issued (the
\* primary query, or the simplified retry after a retryable primary error)
\* returns exactly the three sample groups, and each of them lies within the
\* requested radius of the caller's position.
C15_TimedOutCallReturnsSamplesInRadius ==
    (Returned /\ requests # <<>> /\ requests[Len(requests)].outcome = "timeout") =>
        /\ discResult = getMockNearbyChats(userLocation)
        /\ Len(discResult) = 3
        /\ \A i \in DOMAIN discResult :
              WithinRadius(DistanceFrom(userLocation, discResult[i]), radiusKm)

\* C16: no list the call returns, on any return path, holds a group whose
\* distance from the caller's position exceeds the requested radius.
C16_NoGroupBeyondRadius ==
    Returned =>
        \A i \in DOMAIN discResult :
            WithinRadius(DistanceFrom(userLocation, discResult[i]), radiusKm)

\* C17: every list the call returns, on any return path, is in ascending
\* order of distance from the caller's position.
C17_AscendingByDistance ==
    Returned =>
        \A i, j \in DOMAIN discResult :
            i < j => DistanceFrom(userLocation, discResult[i])
                        <= DistanceFrom(userLocation, discResult[j])

\* ------------------------------------------- group fetching on the map screen
\* The effect on [location] of the map screen, in its two versions: MapScreen.tsx
\* fetches from the effect itself, part_006 from a 2 s debounce timer that the
\* effect sets. A position is a latitude in steps of 0.0001 degrees (the
\* longitude does not move), the time is counted in units of ten seconds.
MaxUpdates == 2     \* location updates delivered to the screen
MaxClock == 7       \* Date.now() at the end of the run

Screens == {"MapScreen.tsx", "part_006"}

\* 5 steps apart: below both thresholds; 15: above the 0.001 of MapScreen.tsx
\* only; 30: above the 0.0018 of part_006 too
Locations == {100, 105, 115, 130}

\* 0.001 and 0.0018 degrees, 30000 and 60000 ms
ChangeThreshold(s) == IF s = "MapScreen.tsx" THEN 10 ELSE 18
MinimumInterval(s) == IF s = "MapScreen.tsx" THEN 3 ELSE 6

Abs(x) == IF x < 0 THEN 0 - x ELSE x

shouldFetch(s, last, lat, currentTime) ==
    \/ last = NoFetch
    \/ Abs(last.lat - lat) > ChangeThreshold(s)
    \/ currentTime - last.time > MinimumInterval(s)

\* fetchNearbyGroups up to its await of getNearbyChatsGroups(location, 5)
fetchNearbyGroups(lat, currentTime) ==
    /\ fetches' = Append(fetches, [lat |-> lat, time |-> currentTime, pc |-> "inflight"])
    /\ loadingGroups' = TRUE

MapFrame ==
    UNCHANGED <<chatGroupId, phase, messages, isLoading, error, subscriptionRef,
                isAuthorizedRef, inits, channels, db, joinedChats, isAuthorized,
                sends, lastOp, prevMessages, discVars, sendVars, clientVars>>

InitMap ==
    /\ screen \in Screens
    /\ location = NoLocation
    /\ dateNow = 0
    /\ lastFetchLocationRef = NoFetch
    /\ fetchTimeoutRef = NoTimer
    /\ fetches = <<>>
    /\ nearbyGroups = 0
    /\ chatPins = 0
    /\ loadingGroups = FALSE
    /\ updates = 0
    /\ HookIdle
    /\ joinedChats = {}
    /\ DiscoveryIdle
    /\ SendIdle
    /\ ClientIdle

\* useLocation delivers a location; the effect on [location] runs (after the
\* cleanup of the previous run, which clears the timer of part_006)
LocationUpdate(l) ==
    /\ updates < MaxUpdates
    /\ updates' = updates + 1
    /\ location' = l
    /\ IF screen = "MapScreen.tsx"
       THEN /\ IF shouldFetch(screen, lastFetchLocationRef, l, dateNow)
               THEN fetchNearbyGroups(l, dateNow)
               ELSE UNCHANGED <<fetches, loadingGroups>>
            /\ UNCHANGED fetchTimeoutRef
       ELSE /\ fetchTimeoutRef' = [lat |-> l, time |-> dateNow, set |-> TRUE]
            /\ UNCHANGED <<fetches, loadingGroups>>
    /\ UNCHANGED <<screen, dateNow, lastFetchLocationRef, nearbyGroups, chatPins>>
    /\ MapFrame

\* part_006: the debounce timer fires with the location and the currentTime
\* its effect run captured
DebounceFire ==
    /\ fetchTimeoutRef.set
    /\ fetchTimeoutRef' = [fetchTimeoutRef EXCEPT !.set = FALSE]
    /\ IF shouldFetch(screen, lastFetchLocationRef, fetchTimeoutRef.lat,
                      fetchTimeoutRef.time)
       THEN fetchNearbyGroups(fetchTimeoutRef.lat, fetchTimeoutRef.time)
       ELSE UNCHANGED <<fetches, loadingGroups>>
    /\ UNCHANGED <<screen, location, dateNow, lastFetchLocationRef, nearbyGroups,
                   chatPins, updates>>
    /\ MapFrame

\* getNearbyChatsGroups resolves for fetch k: groups, reference and pins are
\* set; MapScreen.tsx then clears loadingGroups, part_006 first awaits the
\* write of its cache
FetchComplete(k) ==
    /\ fetches[k].pc = "inflight"
    /\ nearbyGroups' = k
    /\ lastFetchLocationRef' = [lat |-> fetches[k].lat, time |-> fetches[k].time]
    /\ chatPins' = k
    /\ IF screen = "MapScreen.tsx"
       THEN /\ loadingGroups' = FALSE
            /\ fetches' = [fetches EXCEPT ![k].pc = "done"]
       ELSE /\ fetches' = [fetches EXCEPT ![k].pc = "caching"]
            /\ UNCHANGED loadingGroups
    /\ UNCHANGED <<screen, location, dateNow, fetchTimeoutRef, updates>>
    /\ MapFrame

\* part_006: AsyncStorage.setItem settles, the finally block runs
CacheSettle(k) ==
    /\ fetches[k].pc = "caching"
    /\ loadingGroups' = FALSE
    /\ fetches' = [fetches EXCEPT ![k].pc = "done"]
    /\ UNCHANGED <<screen, location, dateNow, lastFetchLocationRef, fetchTimeoutRef,
                   nearbyGroups, chatPins, updates>>
    /\ MapFrame

\* ten seconds pass
Tick ==
    /\ dateNow < MaxClock
    /\ dateNow' = dateNow + 1
    /\ UNCHANGED <<screen, location, lastFetchLocationRef, fetchTimeoutRef, fetches,
                   nearbyGroups, chatPins, loadingGroups, updates>>
    /\ MapFrame

NextMap ==
    \/ \E l \in Locations : LocationUpdate(l)
    \/ DebounceFire
    \/ \E k \in DOMAIN fetches : FetchComplete(k)
    \/ \E k \in DOMAIN fetches : CacheSettle(k)
    \/ Tick

SpecMap == InitMap /\ [][NextMap]_vars

InFlight == {k \in DOMAIN fetches : fetches[k].pc = "inflight"}

\* C18: at most one discovery request of the map screen is in flight at any
\* time, and the groups and pins shown are never those of a request older
\* than one that has already completed.
C18_OneRequestNewestResultKept ==
    /\ Cardinality(InFlight) <= 1
    /\ \A k \in DOMAIN fetches :
          fetches[k].pc # "inflight" => (nearbyGroups >= k /\ chatPins >= k)

\* ------------------------------------------------------------- sendMessage
\* One call of sendMessage(params). A content is written as the number of
\* white-space characters around its text (pad) and the length of the text
\* itself (core): content.length is their sum, content.trim() drops the pad.
MaxPad == 1         \* white-space characters around the text of a content

MaxContentLength == 1000
RateLimit == 10

Content(pad, core) == [pad |-> pad, core |-> core]
Length(content) == content.pad + content.core
Trim(content) == Content(0, content.core)

Contents ==
    {Content(pad, core) :
        pad \in 0..MaxPad,
        core \in {0, 1, MaxContentLength - 1, MaxContentLength, MaxContentLength + 1}}

\* !content.trim()
ContentEmpty(content) == Length(Trim(content)) = 0

ContentTooLongNever(content) == FALSE

\* content.length > 1000
ContentTooLong(content) == Length(content) > MaxContentLength

EmptyError == "Message cannot be empty"
TooLongError == "Message too long (max 1000 characters)"
NotJoinedSendError == "You must join this chat before sending messages"
RateCheckFailedError == "Rate limit check failed"
RateExceededError == "Rate limit exceeded. Please wait before sending another message."
DuplicateError == "Duplicate message detected"
ReferenceError == "Invalid chat or user reference"
SendFailedError == "Failed to send message"
RateLimitInsertError == "Rate limit exceeded"
\* error.message || 'Unexpected error occurred' of the catch block
UnexpectedError == "Unexpected error occurred"

UserIds == {"u1"}
AnonymousId == "anon1"

\* the column of messages that holds the sender's id
SenderColumn(senderType) ==
    IF senderType = "user" THEN "user_id" ELSE "anonymous_user_id"

SenderKeys == {"user_id", "anonymous_user_id"} \X (UserIds \cup {AnonymousId})

\* check_message_rate_limit(sender_id, sender_type_param) on the server
check_message_rate_limit(counts, senderId, senderType) ==
    counts[<<SenderColumn(senderType), senderId>>] < RateLimit

SendParams ==
    [chatGroupId : {"A"}, content : Contents, senderType : {"user", "anonymous"},
     userId : UserIds \cup {Null}, userDisplayName : {"Ann", Null}]

Call(name, senderId, senderType) ==
    [call |-> name, id |-> senderId, type |-> senderType, result |-> "pending"]

\* the pending call settles
Settled(result) == [calls EXCEPT ![Len(calls)].result = result]

\* the call resolves with {success: false, error}
Fail(err) ==
    /\ sendResult' = [success |-> FALSE, error |-> err, inserted |-> FALSE]
    /\ sendPc' = "returned"

SendFrame ==
    UNCHANGED <<chatGroupId, phase, messages, isLoading, error, subscriptionRef,
                isAuthorizedRef, inits, channels, db, joinedChats, isAuthorized,
                sends, lastOp, prevMessages, discVars, mapVars, clientVars>>

InitSend ==
    /\ params \in SendParams
    /\ sendPc = "called"
    /\ sender = Null
    /\ calls = <<>>
    /\ sendResult = NoResult
    /\ recent \in [SenderKeys -> {RateLimit - 1, RateLimit}]
    /\ joinedChats \in {{}, {"A"}}
    /\ HookIdle
    /\ DiscoveryIdle
    /\ MapIdle
    /\ ClientIdle

\* supabase.rpc('check_message_rate_limit', {sender_id, sender_type_param})
CheckRateLimit(senderId) ==
    /\ sender' = senderId
    /\ sendPc' = "rateLimit"
    /\ UNCHANGED sendResult

\* entry of sendMessage: input validation, then hasJoinedChat is awaited
sendMessage ==
    /\ sendPc = "called"
    /\ IF ContentEmpty(params.content)
       THEN Fail(EmptyError) /\ UNCHANGED calls
       ELSE IF ContentTooLong(params.content)
       THEN Fail(TooLongError) /\ UNCHANGED calls
       ELSE /\ calls' = Append(calls, Call("hasJoinedChat", Null, Null))
            /\ sendPc' = "hasJoined"
            /\ UNCHANGED sendResult
    /\ UNCHANGED <<params, sender, recent>>
    /\ SendFrame

HasJoinedSettleProceeds(readOk) ==
    /\ sendPc = "hasJoined"
    /\ calls' = Append(Settled(IF hasJoinedChat(params.chatGroupId, readOk)
                               THEN "true" ELSE "false"),
                       Call("getOrCreateAnonymousUser", Null, Null))
    /\ sendPc' = "identity"
    /\ UNCHANGED <<sender, sendResult>>
    /\ UNCHANGED <<params, recent>>
    /\ SendFrame

\* hasJoinedChat settles; a signed-in sender with id and name goes on to the
\* rate-limit check, any other to getOrCreateAnonymousUser
HasJoinedSettle(readOk) ==
    /\ sendPc = "hasJoined"
    /\ IF ~hasJoinedChat(params.chatGroupId, readOk)
       THEN /\ calls' = Settled("false")
            /\ Fail(NotJoinedSendError)
            /\ UNCHANGED sender
       ELSE IF params.senderType = "user" /\ params.userId # Null
                  /\ params.userDisplayName # Null
       THEN /\ calls' = Append(Settled("true"),
                   Call("check_message_rate_limit", params.userId, params.senderType))
            /\ CheckRateLimit(params.userId)
       ELSE /\ calls' = Append(Settled("true"),
                   Call("getOrCreateAnonymousUser", Null, Null))
            /\ sendPc' = "identity"
            /\ UNCHANGED <<sender, sendResult>>
    /\ UNCHANGED <<params, recent>>
    /\ SendFrame

\* getOrCreateAnonymousUser settles; a rejection lands in the catch block
IdentitySettle(ok) ==
    /\ sendPc = "identity"
    /\ IF ok
       THEN /\ calls' = Append(Settled("true"),
                   Call("check_message_rate_limit", AnonymousId, params.senderType))
            /\ CheckRateLimit(AnonymousId)
       ELSE /\ calls' = Settled("rejected")
            /\ Fail(UnexpectedError)
            /\ UNCHANGED sender
    /\ UNCHANGED <<params, recent>>
    /\ SendFrame

RateLimitSettleIgnored(outcome) ==
    /\ sendPc = "rateLimit"
    /\ LET canSend == check_message_rate_limit(recent, sender, params.senderType)
       IN  /\ calls' = Append(Settled(IF outcome # "data" THEN outcome
                                      ELSE IF canSend THEN "true" ELSE "false"),
                              Call("insert", sender, params.senderType))
           /\ sendPc' = "insert"
           /\ UNCHANGED sendResult
    /\ UNCHANGED <<params, sender, recent>>
    /\ SendFrame

\* the rate-limit check settles with the server's answer, with an error
\* object, or with a rejection; only the answer true leads to the insert
RateLimitSettle(outcome) ==
    /\ sendPc = "rateLimit"
    /\ LET canSend == check_message_rate_limit(recent, sender, params.senderType)
       IN  IF outcome = "rejected"
           THEN calls' = Settled("rejected") /\ Fail(UnexpectedError)
           ELSE IF outcome = "error"
           THEN calls' = Settled("error") /\ Fail(RateCheckFailedError)
           ELSE IF ~canSend
           THEN calls' = Settled("false") /\ Fail(RateExceededError)
           ELSE /\ calls' = Append(Settled("true"),
                                   Call("insert", sender, params.senderType))
                /\ sendPc' = "insert"
                /\ UNCHANGED sendResult
    /\ UNCHANGED <<params, sender, recent>>
    /\ SendFrame

\* result of a failed insert, by error code, message or rejection
InsertErrors ==
    [c23505 |-> DuplicateError, c23503 |-> ReferenceError,
     rateLimit |-> RateLimitInsertError, other |-> SendFailedError,
     rejected |-> UnexpectedError]

\* the insert settles: the row is stored and returned, or an error comes back
InsertSettle(outcome) ==
    /\ sendPc = "insert"
    /\ IF outcome = "ok"
       THEN /\ calls' = Settled("ok")
            /\ recent' = [recent EXCEPT
                            ![<<SenderColumn(params.senderType), sender>>] = @ + 1]
            /\ sendResult' = [success |-> TRUE, error |-> Null, inserted |-> TRUE]
            /\ sendPc' = "returned"
       ELSE /\ calls' = Settled(outcome)
            /\ Fail(InsertErrors[outcome])
            /\ UNCHANGED recent
    /\ UNCHANGED <<params, sender>>
    /\ SendFrame

NextSend ==
    \/ sendMessage
    \/ \E readOk \in BOOLEAN : HasJoinedSettle(readOk)
    \/ \E ok \in BOOLEAN : IdentitySettle(ok)
    \/ \E outcome \in {"data", "error", "rejected"} : RateLimitSettle(outcome)
    \/ \E outcome \in {"ok"} \cup DOMAIN InsertErrors : InsertSettle(outcome)

SpecSend == InitSend /\ [][NextSend]_vars

\* C19: an insert is issued only directly after a rate-limit check that was
\* called for the sender of the inserted row and answered true; a check that
\* answers false or fails ends the call with a failure result and no insert.
C19_InsertOnlyAfterRateLimitPassed ==
    /\ \A i \in DOMAIN calls :
          calls[i].call = "insert" =>
              /\ i > 1
              /\ calls[i - 1].call = "check_message_rate_limit"
              /\ calls[i - 1].id = calls[i].id
              /\ calls[i - 1].type = calls[i].type
              /\ calls[i - 1].result = "true"
    /\ \A j \in DOMAIN calls :
          (calls[j].call = "check_message_rate_limit"
              /\ calls[j].result \in {"false", "error", "rejected"}) =>
                 /\ sendPc = "returned"
                 /\ ~sendResult.success
                 /\ \A i \in DOMAIN calls : calls[i].call # "insert"

\* C19 witness: the sender had 9 rows in the last minute, the check answered
\* true, the row was inserted and is the sender's tenth
C19_Witness ==
    /\ sendPc = "returned"
    /\ sendResult.success
    /\ calls[Len(calls)].call = "insert"
    /\ recent[<<SenderColumn(params.senderType), sender>>] = RateLimit

\* C20: a content longer than 1000 characters, or empty once trimmed, makes
\* sendMessage return a failure result without any storage read or remote
\* call (authorization check, identity lookup, rate-limit check, insert).
C20_InvalidContentRejectedFirst ==
    (Length(params.content) > MaxContentLength \/ params.content.core = 0) =>
        /\ calls = <<>>
        /\ sendPc \in {"called", "returned"}
        /\ sendPc = "returned" =>
              /\ ~sendResult.success
              /\ ~sendResult.inserted
              /\ sendResult.error \in {EmptyError, TooLongError}

\* C20 witness: a content of 1001 characters was rejected as too long
C20_Witness ==
    /\ Length(params.content) = MaxContentLength + 1
    /\ params.content.core > 0
    /\ sendPc = "returned"
    /\ sendResult.error = TooLongError
    /\ calls = <<>>

\* ------------------------------------------------ the sender of a message
\* ChatScreen keeps the sender in currentUserId / currentUserName, set by
\* checkAuthorization; the effect runs on mount and whenever the auth state
\* changes and has no cleanup, so an earlier run can settle after a later one.
\* handleSendMessage builds the optimistic entry and the sendMessage
\* parameters from the auth state and the sender state of the current render.
MaxAuthChanges == 2 \* auth state changes while the chat screen is open

UserName == "Ann"
AnonymousName == "CrimsonFox"

\* useAuth(): signed out, signed in with a profile, signed in without one
AuthStates ==
    { [isAuthenticated |-> FALSE, user |-> Null],
      [isAuthenticated |-> TRUE, user |-> "u1"],
      [isAuthenticated |-> TRUE, user |-> Null] }

\* a || b
Or(a, b) == IF a \in {Null, ""} THEN b ELSE a

MessageDataBothColumns(senderType, senderId) ==
    [sender_type |-> senderType, user_id |-> senderId,
     anonymous_user_id |-> senderId]

\* sender fields of the row sendMessage submits for insert
MessageData(senderType, senderId) ==
    [sender_type |-> senderType,
     user_id |-> IF senderType = "user" THEN senderId ELSE Null,
     anonymous_user_id |-> IF senderType = "anonymous" THEN senderId ELSE Null]

\* the rows submitted by the insert calls made so far
InsertedRows ==
    {MessageData(calls[i].type, calls[i].id) :
        i \in {j \in DOMAIN calls : calls[j].call = "insert"}}

\* sender fields handleSendMessage passes to addOptimisticMessage
OptimisticData ==
    [sender_type |-> IF isAuthenticated THEN "user" ELSE "anonymous",
     user_id |-> IF isAuthenticated THEN currentUserId ELSE Null,
     anonymous_user_id |-> IF isAuthenticated THEN Null ELSE currentUserId]

\* sender fields of the entry addOptimisticMessage builds from them
OptimisticSender(data) ==
    [sender_type |-> Or(data.sender_type, "anonymous"),
     user_id |-> Or(data.user_id, Null),
     anonymous_user_id |-> Or(data.anonymous_user_id, Null)]

\* parameters handleSendMessage passes to sendMessage
SenderParams ==
    [chatGroupId |-> "A", content |-> Content(0, 1),
     senderType |-> IF isAuthenticated THEN "user" ELSE "anonymous",
     userId |-> IF isAuthenticated THEN currentUserId ELSE Null,
     userDisplayName |-> IF isAuthenticated THEN currentUserName ELSE Null]

AuthCheck(auth) ==
    [isAuthenticated |-> auth.isAuthenticated, user |-> auth.user,
     pc |-> "checking"]

ScreenFrame ==
    UNCHANGED <<chatGroupId, phase, messages, isLoading, error, subscriptionRef,
                isAuthorizedRef, inits, channels, db, joinedChats, sends, lastOp,
                prevMessages, discVars, mapVars, identityVars, participationVars>>

\* ChatScreen opened on chat "A": the first checkAuthorization run is
\* suspended in hasJoinedChat
InitScreen ==
    /\ \E auth \in AuthStates :
          /\ isAuthenticated = auth.isAuthenticated
          /\ user = auth.user
          /\ authChecks = <<AuthCheck(auth)>>
    /\ currentUserId = ""
    /\ currentUserName = ""
    /\ optimistic = <<>>
    /\ authChanges = 0
    /\ params = <<>>
    /\ sendPc = "idle"
    /\ sender = Null
    /\ calls = <<>>
    /\ sendResult = NoResult
    /\ recent \in [SenderKeys -> {RateLimit - 1}]
    /\ joinedChats \in {{}, {"A"}}
    /\ HookIdle
    /\ DiscoveryIdle
    /\ MapIdle
    /\ IdentityIdle
    /\ ParticipationIdle

\* the auth state changes (sign in, sign out, profile lookup failed): the
\* screen renders again and the effect starts another checkAuthorization
AuthChange(auth) ==
    /\ authChanges < MaxAuthChanges
    /\ <<auth.isAuthenticated, auth.user>> # <<isAuthenticated, user>>
    /\ isAuthenticated' = auth.isAuthenticated
    /\ user' = auth.user
    /\ authChecks' = Append(authChecks, AuthCheck(auth))
    /\ authChanges' = authChanges + 1
    /\ UNCHANGED <<currentUserId, currentUserName, optimistic, isAuthorized,
                   sendVars>>
    /\ ScreenFrame

\* hasJoinedChat of checkAuthorization run k settles
AuthCheckJoined(k, readOk) ==
    /\ authChecks[k].pc = "checking"
    /\ IF ~hasJoinedChat("A", readOk)
       THEN /\ authChecks' = [authChecks EXCEPT ![k].pc = "done"]
            /\ UNCHANGED <<isAuthorized, currentUserId, currentUserName>>
       ELSE /\ isAuthorized' = TRUE
            /\ IF authChecks[k].isAuthenticated /\ authChecks[k].user # Null
               THEN /\ currentUserId' = authChecks[k].user
                    /\ currentUserName' = UserName
                    /\ authChecks' = [authChecks EXCEPT ![k].pc = "done"]
               ELSE /\ authChecks' = [authChecks EXCEPT ![k].pc = "identity"]
                    /\ UNCHANGED <<currentUserId, currentUserName>>
    /\ UNCHANGED <<isAuthenticated, user, optimistic, authChanges, sendVars>>
    /\ ScreenFrame

\* getOrCreateAnonymousUser of checkAuthorization run k settles
AuthCheckIdentity(k, ok) ==
    /\ authChecks[k].pc = "identity"
    /\ authChecks' = [authChecks EXCEPT ![k].pc = "done"]
    /\ currentUserId' = IF ok THEN AnonymousId ELSE currentUserId
    /\ currentUserName' = IF ok THEN AnonymousName ELSE currentUserName
    /\ UNCHANGED <<isAuthenticated, user, optimistic, authChanges, isAuthorized,
                   sendVars>>
    /\ ScreenFrame

\* handleSendMessage up to its await, with the sender fields kept
SenderHandleSendMessage ==
    /\ isAuthorized
    /\ currentUserId # ""
    /\ sendPc = "idle"
    /\ optimistic' = Append(optimistic, OptimisticSender(OptimisticData))
    /\ params' = SenderParams
    /\ sendPc' = "called"
    /\ UNCHANGED <<isAuthenticated, user, currentUserId, currentUserName,
                   authChecks, authChanges, isAuthorized, sender, calls,
                   sendResult, recent>>
    /\ ScreenFrame

\* sendMessage called with any parameters, or ChatScreen calling it
InitSender == InitSend \/ InitScreen

NextSender ==
    \/ \E auth \in AuthStates : AuthChange(auth)
    \/ \E k \in DOMAIN authChecks : \E readOk \in BOOLEAN : AuthCheckJoined(k, readOk)
    \/ \E k \in DOMAIN authChecks : \E ok \in BOOLEAN : AuthCheckIdentity(k, ok)
    \/ SenderHandleSendMessage
    \/ NextSend

SpecSender == InitSender /\ [][NextSender]_vars

\* exactly one sender column is set, the one of the row's sender_type
OneSenderColumn(row) ==
    /\ row.sender_type \in {"user", "anonymous"}
    /\ row[SenderColumn(row.sender_type)] \notin {Null, ""}
    /\ \A column \in {"user_id", "anonymous_user_id"} \ {SenderColumn(row.sender_type)} :
          row[column] = Null

\* C21: every row sendMessage submits for insert and every optimistic entry
\* ChatScreen adds has exactly one of user_id / anonymous_user_id set, the one
\* that belongs to its sender_type, for every senderType, userId and
\* userDisplayName.
C21_ExactlyOneSenderColumn ==
    /\ \A row \in InsertedRows : OneSenderColumn(row)
    /\ \A i \in DOMAIN optimistic : OneSenderColumn(optimistic[i])

\* C21 witness: signed in without a profile, ChatScreen sent as 'user' with
\* the anonymous identity, and the row went to the insert
C21_Witness ==
    /\ Len(optimistic) = 1
    /\ optimistic[1].sender_type = "user"
    /\ optimistic[1].user_id = AnonymousId
    /\ \E row \in InsertedRows : row.sender_type = "user" /\ row.user_id = AnonymousId

\* ------------------------------------------------ getOrCreateAnonymousUser
\* Calls of getOrCreateAnonymousUser on one installation. Every await is a
\* point where another call can run. The stored device id is read when
\* SecureStore serves getItemAsync and written when it serves setItemAsync;
\* on the web localStorage is read when the call starts and written when the
\* call resumes, which is the behaviour in which each request is served at
\* once. generateDeviceId (time stamp and nine random characters) is taken to
\* give a fresh id on every call; the remote calls answer truthfully.
MaxIdentityCalls == 3 \* calls of getOrCreateAnonymousUser


IdentityCall(pc, deviceId, result) ==
    [pc |-> pc, deviceId |-> deviceId, result |-> result]

\* generateDeviceId()
generateDeviceId == Len(generated) + 1

IdentityFrame ==
    UNCHANGED <<chatGroupId, phase, messages, isLoading, error, subscriptionRef,
                isAuthorizedRef, inits, channels, db, joinedChats, isAuthorized,
                sends, lastOp, prevMessages, discVars, mapVars, sendVars,
                screenVars, participationVars>>

\* a fresh installation: no stored device id, no remote row
InitIdentity ==
    /\ nexu_device_id = NoDevice
    /\ generated = <<>>
    /\ anonymous_users = {}
    /\ identityCalls = <<>>
    /\ HookIdle
    /\ joinedChats = {}
    /\ DiscoveryIdle
    /\ MapIdle
    /\ SendIdle
    /\ ScreenIdle
    /\ ParticipationIdle

\* a screen calls getOrCreateAnonymousUser: getStoredDeviceId is awaited
getOrCreateAnonymousUser ==
    /\ Len(identityCalls) < MaxIdentityCalls
    /\ identityCalls' = Append(identityCalls, IdentityCall("read", NoDevice, "pending"))
    /\ UNCHANGED <<nexu_device_id, generated, anonymous_users>>
    /\ IdentityFrame

\* the stored id is read: the call keeps it, or generates one and awaits
\* storeDeviceId
StoredDeviceIdRead(k) ==
    /\ identityCalls[k].pc = "read"
    /\ IF nexu_device_id # NoDevice
       THEN /\ identityCalls' = [identityCalls EXCEPT
                    ![k] = IdentityCall("context", nexu_device_id, "pending")]
            /\ UNCHANGED generated
       ELSE /\ identityCalls' = [identityCalls EXCEPT
                    ![k] = IdentityCall("store", generateDeviceId, "pending")]
            /\ generated' = Append(generated, generateDeviceId)
    /\ UNCHANGED <<nexu_device_id, anonymous_users>>
    /\ IdentityFrame

\* storeDeviceId is served: the generated id replaces whatever is stored
DeviceIdStored(k) ==
    /\ identityCalls[k].pc = "store"
    /\ nexu_device_id' = identityCalls[k].deviceId
    /\ identityCalls' = [identityCalls EXCEPT ![k].pc = "context"]
    /\ UNCHANGED <<generated, anonymous_users>>
    /\ IdentityFrame

\* setDeviceContext settles (an error is only logged): the lookup is sent
DeviceContextSet(k) ==
    /\ identityCalls[k].pc = "context"
    /\ identityCalls' = [identityCalls EXCEPT ![k].pc = "lookup"]
    /\ UNCHANGED <<nexu_device_id, generated, anonymous_users>>
    /\ IdentityFrame

\* select ... eq('device_id', deviceId).single() settles: a row leads to the
\* last_seen update, no row to the insert
LookupSettle(k) ==
    /\ identityCalls[k].pc = "lookup"
    /\ identityCalls' = [identityCalls EXCEPT
            ![k].pc = IF identityCalls[k].deviceId \in anonymous_users
                      THEN "update" ELSE "insert"]
    /\ UNCHANGED <<nexu_device_id, generated, anonymous_users>>
    /\ IdentityFrame

\* the last_seen update settles: the existing row is returned
UpdateSettle(k) ==
    /\ identityCalls[k].pc = "update"
    /\ identityCalls' = [identityCalls EXCEPT ![k].pc = "returned",
                                               ![k].result = "existing"]
    /\ UNCHANGED <<nexu_device_id, generated, anonymous_users>>
    /\ IdentityFrame

\* the insert settles: device_id is UNIQUE, so a second row for the same
\* device id is refused and the call throws
IdentityInsertSettle(k) ==
    /\ identityCalls[k].pc = "insert"
    /\ IF identityCalls[k].deviceId \in anonymous_users
       THEN /\ identityCalls' = [identityCalls EXCEPT ![k].pc = "returned",
                                                      ![k].result = "thrown"]
            /\ UNCHANGED anonymous_users
       ELSE /\ identityCalls' = [identityCalls EXCEPT ![k].pc = "returned",
                                                      ![k].result = "created"]
            /\ anonymous_users' = anonymous_users \cup {identityCalls[k].deviceId}
    /\ UNCHANGED <<nexu_device_id, generated>>
    /\ IdentityFrame

NextIdentity ==
    \/ getOrCreateAnonymousUser
    \/ \E k \in DOMAIN identityCalls : StoredDeviceIdRead(k)
    \/ \E k \in DOMAIN identityCalls : DeviceIdStored(k)
    \/ \E k \in DOMAIN identityCalls : DeviceContextSet(k)
    \/ \E k \in DOMAIN identityCalls : LookupSettle(k)
    \/ \E k \in DOMAIN identityCalls : UpdateSettle(k)
    \/ \E k \in DOMAIN identityCalls : IdentityInsertSettle(k)

SpecIdentity == InitIdentity /\ [][NextIdentity]_vars

\* C22: on a fresh installation, under any interleaving of the calls, one
\* device id is generated and stored and one remote row is created, and every
\* call works with that device id.
C22_OneDeviceIdOneRow ==
    /\ Len(generated) <= 1
    /\ Cardinality(anonymous_users) <= 1
    /\ \A k \in DOMAIN identityCalls :
          identityCalls[k].deviceId # NoDevice =>
              identityCalls[k].deviceId = generated[1]
    /\ \A k \in DOMAIN identityCalls :
          identityCalls[k].pc = "returned" =>
              (nexu_device_id = generated[1] /\ anonymous_users = {generated[1]})

\* --------------------------------------------------- the joined-chat list
\* joinChat, leaveChat and hasJoinedChat on the list stored under
\* JOINED_CHATS_KEY. Each call awaits getJoinedChats (AsyncStorage.getItem,
\* whose failure is swallowed into an empty list), changes its own copy of
\* the list and awaits AsyncStorage.setItem. joinedChats, the set of chats
\* the other components see as joined, is the set of active records.
MaxParticipationCalls == 4  \* calls made one at a time
MaxOverlap == 2             \* calls that overlap

ChatNames == {"Cafe", "Park"}

JoinedChat(id, name, now) ==
    [id |-> id, name |-> name, joinedAt |-> now, lastActivity |-> now,
     isActive |-> TRUE]

\* joinedChats.find(chat => chat.id === chatId): the first record with the id
Find(list, chatId) ==
    IF \E i \in DOMAIN list : list[i].id = chatId
    THEN CHOOSE i \in DOMAIN list :
            list[i].id = chatId /\ \A j \in 1..(i - 1) : list[j].id # chatId
    ELSE 0

\* chats with a record that is active
ActiveIds(list) == {list[i].id : i \in {j \in DOMAIN list : list[j].isActive}}

\* getJoinedChats: the stored list, [] when nothing is stored or the read fails
getJoinedChats(readOk) == IF readOk THEN nexu_joined_chats ELSE <<>>

\* the list joinChat writes back
joinChat(list, chatId, chatName, now) ==
    IF Find(list, chatId) # 0
    THEN [list EXCEPT ![Find(list, chatId)].lastActivity = now,
                      ![Find(list, chatId)].isActive = TRUE]
    ELSE Append(list, JoinedChat(chatId, chatName, now))

\* the list leaveChat writes back when it found a record
leaveChat(list, chatId, now) ==
    [list EXCEPT ![Find(list, chatId)].isActive = FALSE,
                 ![Find(list, chatId)].lastActivity = now]

ParticipationCall(op, chatId, chatName) ==
    [op |-> op, chatId |-> chatId, chatName |-> chatName, pc |-> "read",
     read |-> "pending", list |-> <<>>, result |-> "pending"]

\* no call is between its start and its return
NoCallRunning ==
    \A k \in DOMAIN participation : participation[k].pc = "returned"

ParticipationFrame ==
    UNCHANGED <<chatGroupId, phase, messages, isLoading, error, subscriptionRef,
                isAuthorizedRef, inits, channels, db, isAuthorized, sends, lastOp,
                prevMessages, discVars, mapVars, sendVars, screenVars,
                identityVars>>

\* nothing stored yet
InitParticipation ==
    /\ nexu_joined_chats = <<>>
    /\ participation = <<>>
    /\ isoNow = 1
    /\ lastCompleted = [c \in RealChats |-> "none"]
    /\ joinedChats = {}
    /\ HookIdle
    /\ DiscoveryIdle
    /\ MapIdle
    /\ SendIdle
    /\ ScreenIdle
    /\ IdentityIdle

\* a call starts and awaits getJoinedChats
StartCall(op, chatId, chatName, limit) ==
    /\ Len(participation) < limit
    /\ participation' = Append(participation, ParticipationCall(op, chatId, chatName))
    /\ UNCHANGED <<nexu_joined_chats, isoNow, lastCompleted, joinedChats>>
    /\ ParticipationFrame

\* getJoinedChats of call k settles. joinChat changes its copy and awaits
\* setItem; leaveChat does so when it finds a record and resolves otherwise;
\* hasJoinedChat resolves with its answer.
JoinedChatsRead(k, readOk) ==
    /\ participation[k].pc = "read"
    /\ LET call == participation[k]
           list == getJoinedChats(readOk)
           done == [call EXCEPT !.read = IF readOk THEN "ok" ELSE "failed",
                                !.pc = "returned"]
       IN  CASE call.op = "joinChat" ->
                  /\ participation' = [participation EXCEPT ![k] =
                        [call EXCEPT !.read = IF readOk THEN "ok" ELSE "failed",
                                     !.pc = "write",
                                     !.list = joinChat(list, call.chatId,
                                                       call.chatName, isoNow)]]
                  /\ UNCHANGED lastCompleted
            [] call.op = "leaveChat" /\ Find(list, call.chatId) # 0 ->
                  /\ participation' = [participation EXCEPT ![k] =
                        [call EXCEPT !.read = IF readOk THEN "ok" ELSE "failed",
                                     !.pc = "write",
                                     !.list = leaveChat(list, call.chatId, isoNow)]]
                  /\ UNCHANGED lastCompleted
            [] call.op = "leaveChat" /\ Find(list, call.chatId) = 0 ->
                  /\ participation' = [participation EXCEPT ![k] =
                        [done EXCEPT !.result = "resolved"]]
                  /\ lastCompleted' = [lastCompleted EXCEPT ![call.chatId] = "leaveChat"]
            [] call.op = "hasJoinedChat" ->
                  /\ participation' = [participation EXCEPT ![k] =
                        [done EXCEPT !.result =
                            IF hasJoinedChat(call.chatId, readOk)
                            THEN "true" ELSE "false"]]
                  /\ UNCHANGED lastCompleted
    /\ isoNow' = isoNow + 1
    /\ UNCHANGED <<nexu_joined_chats, joinedChats>>
    /\ ParticipationFrame

\* setItem of call k settles: the call's copy replaces the stored list, or
\* the write fails and the call rethrows
JoinedChatsWritten(k, writeOk) ==
    /\ participation[k].pc = "write"
    /\ IF writeOk
       THEN /\ nexu_joined_chats' = participation[k].list
            /\ joinedChats' = ActiveIds(participation[k].list)
            /\ participation' = [participation EXCEPT ![k].pc = "returned",
                                                       ![k].result = "resolved"]
            /\ lastCompleted' = [lastCompleted EXCEPT
                                    ![participation[k].chatId] = participation[k].op]
       ELSE /\ participation' = [participation EXCEPT ![k].pc = "returned",
                                                       ![k].result = "thrown"]
            /\ UNCHANGED <<nexu_joined_chats, joinedChats, lastCompleted>>
    /\ UNCHANGED isoNow
    /\ ParticipationFrame

\* calls run one at a time; storage reads and writes can fail
NextParticipation ==
    \/ \E c \in RealChats : \E n \in ChatNames :
          NoCallRunning /\ StartCall("joinChat", c, n, MaxParticipationCalls)
    \/ \E c \in RealChats :
          NoCallRunning /\ StartCall("leaveChat", c, Null, MaxParticipationCalls)
    \/ \E c \in RealChats :
          NoCallRunning /\ StartCall("hasJoinedChat", c, Null, MaxParticipationCalls)
    \/ \E k \in DOMAIN participation : \E readOk \in BOOLEAN : JoinedChatsRead(k, readOk)
    \/ \E k \in DOMAIN participation : \E writeOk \in BOOLEAN : JoinedChatsWritten(k, writeOk)

SpecParticipation == InitParticipation /\ [][NextParticipation]_vars

\* the step in which the setItem of call k resolves
WriteResolves(k) ==
    participation[k].pc = "write" /\ participation'[k].result = "resolved"

\* C23: with calls run one at a time, the stored list holds at most one
\* record per chat id, no record is removed (every record keeps its place,
\* id, name and joinedAt), a leaveChat only clears isActive of its record, and
\* a joinChat of a chat that has a record reactivates that record.
C23_RecordsKeptAndReactivated ==
    [][LET old == nexu_joined_chats
           new == nexu_joined_chats'
       IN  /\ \A i, j \in DOMAIN new : i # j => new[i].id # new[j].id
           /\ Len(new) >= Len(old)
           /\ \A i \in DOMAIN old :
                 /\ new[i].id = old[i].id
                 /\ new[i].name = old[i].name
                 /\ new[i].joinedAt = old[i].joinedAt
           /\ \A k \in DOMAIN participation :
                 WriteResolves(k) =>
                    LET call == participation[k]
                        at == Find(old, call.chatId)
                    IN  IF call.op = "leaveChat"
                        THEN /\ at # 0
                             /\ new = [old EXCEPT ![at].isActive = FALSE,
                                                  ![at].lastActivity = new[at].lastActivity]
                        ELSE IF at # 0
                        THEN new = [old EXCEPT ![at].isActive = TRUE,
                                               ![at].lastActivity = new[at].lastActivity]
                        ELSE /\ Len(new) = Len(old) + 1
                             /\ SubSeq(new, 1, Len(old)) = old
                             /\ new[Len(new)].id = call.chatId
                             /\ new[Len(new)].name = call.chatName
                             /\ new[Len(new)].isActive]_vars

\* C30: with calls run one at a time, hasJoinedChat(c) answers true exactly
\* when the last joinChat / leaveChat on c that resolved was a joinChat, and
\* false when the stored list cannot be read; a leaveChat on a chat without a
\* record resolves without changing the stored list.
C30_HasJoinedIsLastOperation ==
    [][\A k \in DOMAIN participation :
          LET call == participation[k]
          IN  /\ (call.op = "hasJoinedChat" /\ participation'[k].pc = "returned"
                     /\ call.pc = "read") =>
                    participation'[k].result =
                        IF participation'[k].read = "failed" THEN "false"
                        ELSE IF lastCompleted[call.chatId] = "joinChat"
                             THEN "true" ELSE "false"
              /\ (call.op = "leaveChat" /\ participation'[k] # call
                     /\ Find(nexu_joined_chats, call.chatId) = 0) =>
                    /\ participation'[k].result = "resolved"
                    /\ UNCHANGED nexu_joined_chats]_vars

\* -------------------------------------------- overlapping joins and leaves
\* Two calls for different chats whose awaits interleave (a join started from
\* the map screen while a leave started from the chat list is still running).
\* Storage reads and writes succeed. The stored list is one that earlier
\* calls, run one at a time, can have left.
StoredRecord(c, active) ==
    [JoinedChat(c, IF c = "A" THEN "Cafe" ELSE "Park", 0) EXCEPT !.isActive = active]

StoredLists ==
    {<<>>}
        \cup {<<StoredRecord(c, a)>> : c \in RealChats, a \in BOOLEAN}
        \cup {<<StoredRecord(p[1], a), StoredRecord(p[2], b)>> :
                p \in {<<"A", "B">>, <<"B", "A">>}, a \in BOOLEAN, b \in BOOLEAN}

InitOverlap ==
    /\ nexu_joined_chats \in StoredLists
    /\ participation = <<>>
    /\ isoNow = 1
    /\ lastCompleted = [c \in RealChats |-> "none"]
    /\ joinedChats = ActiveIds(nexu_joined_chats)
    /\ HookIdle
    /\ DiscoveryIdle
    /\ MapIdle
    /\ SendIdle
    /\ ScreenIdle
    /\ IdentityIdle

\* no call for this chat has been made
OtherChat(c) == \A k \in DOMAIN participation : participation[k].chatId # c

NextOverlap ==
    \/ \E c \in RealChats : \E n \in ChatNames :
          OtherChat(c) /\ StartCall("joinChat", c, n, MaxOverlap)
    \/ \E c \in RealChats :
          OtherChat(c) /\ StartCall("leaveChat", c, Null, MaxOverlap)
    \/ \E k \in DOMAIN participation : JoinedChatsRead(k, TRUE)
    \/ \E k \in DOMAIN participation : JoinedChatsWritten(k, TRUE)

SpecOverlap == InitOverlap /\ [][NextOverlap]_vars

\* C27: once two overlapping joinChat / leaveChat calls for different chats
\* have both completed, the stored list reflects both: a joined chat has an
\* active record, a left chat has none.
C27_NoCompletedUpdateLost ==
    (Len(participation) = MaxOverlap /\ NoCallRunning) =>
        \A k \in DOMAIN participation :
            IF participation[k].op = "joinChat"
            THEN participation[k].chatId \in ActiveIds(nexu_joined_chats)
            ELSE participation[k].chatId \notin ActiveIds(nexu_joined_chats)

\* ------------------------------------------------- validation of the rows
\* The hook is mounted on the joined chat "A" with loadInitialMessages
\* suspended in its query, while other senders commit rows of every shape:
\* well formed, with one required column null or undefined, or with a
\* sender_type the client does not know.
ValidateShapes ==
    {<<"user", {}>>, <<"anonymous", {}>>, <<"system", {}>>}
        \cup {<<"user", {field}>> : field \in RequiredFields}

InitValidate ==
    /\ db = {}
    /\ chatGroupId = "A"
    /\ phase = "mounted"
    /\ messages = <<>>
    /\ isLoading = TRUE
    /\ error = Null
    /\ subscriptionRef = NoChannel
    /\ isAuthorizedRef = TRUE
    /\ inits = <<[chat |-> "A", pc |-> "fetching", fetched |-> "none"]>>
    /\ channels = <<>>
    /\ joinedChats = {"A"}
    /\ isAuthorized = FALSE
    /\ sends = <<>>
    /\ lastOp = NoOp
    /\ prevMessages = <<>>
    /\ ServicesIdle

NextValidate ==
    \/ FetchSucceed(1)
    \/ FetchFail(1)
    \/ \E ch \in DOMAIN channels : ChannelSubscribed(ch)
    \/ \E ch \in DOMAIN channels : PushDeliver(ch)
    \/ \E shape \in ValidateShapes : OtherSenderInsert("A", shape)

SpecValidate == InitValidate /\ [][NextValidate]_vars

\* a row that lacks a required column or has an unknown sender_type
Malformed(row) ==
    \/ \E field \in RequiredFields : field \in row.missing
    \/ row.sender_type \notin {"user", "anonymous"}

\* C24: a history record or pushed row that lacks one of id, chat_group_id,
\* content, sent_at, sender_type, display_name, or whose sender_type is
\* neither 'user' nor 'anonymous', is never in the message list, and the push
\* event that carries it leaves the list and the error unchanged.
C24_MalformedRowsNeverListed ==
    /\ [](\A i \in DOMAIN messages : ~Malformed(messages[i]))
    /\ [][\A ch \in DOMAIN channels :
            (/\ channels[ch].queue # <<>>
             /\ channels'[ch].queue = Tail(channels[ch].queue)
             /\ Malformed(Head(channels[ch].queue)))
                => UNCHANGED <<messages, error>>]_vars

\* C24 witness: two rows were committed, a malformed one and then a well
\* formed one; the history was loaded, every push was delivered, and the list
\* holds the well formed row alone, as the push handler stored it
C24_Witness ==
    /\ inits[1].fetched = "ok"
    /\ Cardinality(db) = MaxRows
    /\ \E row \in db : Malformed(row) /\ row.sent_at = 1
    /\ Len(messages) = 1
    /\ messages[1].isOptimistic = "false"
    /\ \A ch \in DOMAIN channels :
          channels[ch].status = "SUBSCRIBED" /\ channels[ch].queue = <<>>

\* ------------------------------------------- addOptimisticMessage on its own
\* addOptimisticMessage applied to every list the hook can hold. It is a
\* plain function: the temporary id is built, the entry is queued with
\* setMessages and the id is returned in one step. lastOp.id is the value
\* returned to the caller.
OpsAdd(k) ==
    /\ lastOp.op = "none"
    /\ messages' = addOptimisticMessage(messages, TempId(k), chatGroupId, MaxIds + 1)
    /\ lastOp' = [NoOp EXCEPT !.op = "add", !.id = TempId(k)]
    /\ prevMessages' = messages
    /\ OpsFrame

NextAdd == \E k \in 1..(MaxIds + 1) : OpsAdd(k)

SpecAdd == InitOps /\ [][NextAdd]_vars

\* ids the server assigns
ServerIds == {SrvId(n) : n \in 0..(MaxIds + 1)}

\* C25: addOptimisticMessage appends one entry flagged isOptimistic = true at
\* the end of the list and leaves the existing entries unchanged; the id it
\* returns is the id of that entry, carries the 'temp' prefix and is no
\* server-assigned id; no remote call is made in the step.
C25_AppendsOneOptimisticEntry ==
    lastOp.op = "add" =>
        /\ Len(messages) = Len(prevMessages) + 1
        /\ SubSeq(messages, 1, Len(prevMessages)) = prevMessages
        /\ messages[Len(messages)].isOptimistic = "true"
        /\ messages[Len(messages)].id = lastOp.id
        /\ messages[Len(messages)].chat_group_id = chatGroupId
        /\ lastOp.id[1] = "temp"
        /\ lastOp.id \notin ServerIds
        /\ db = {} /\ channels = <<>> /\ sends = <<>> /\ calls = <<>>

\* C25 witness: the entry was added to a list of history rows, confirmed rows
\* and an earlier optimistic entry
C25_Witness ==
    /\ lastOp.op = "add"
    /\ Len(prevMessages) = MaxLen
    /\ \E i \in DOMAIN prevMessages : prevMessages[i].isOptimistic = "true"
    /\ \E i \in DOMAIN prevMessages : prevMessages[i].id \in ServerIds
    /\ messages[Len(messages)].id = lastOp.id

\* C26: every entry of the list of the mounted hook belongs to the chat the
\* hook currently shows, also after chatGroupId changed while the fetch or
\* the subscription of the previous chat was still delivering.
C26_ListHoldsCurrentChatOnly ==
    Mounted => \A i \in DOMAIN messages : messages[i].chat_group_id = chatGroupId

\* C28: sendMessage for a chat without an active joined record returns a
\* failure result and makes no identity call, no rate-limit check and no
\* insert; and on every path, rejections of its collaborators included, the
\* call ends by returning a result object.
C28_NotJoinedFailsWithoutCalls ==
    /\ params.chatGroupId \notin joinedChats =>
          /\ \A i \in DOMAIN calls : calls[i].call = "hasJoinedChat"
          /\ sendPc = "returned" => (~sendResult.success /\ ~sendResult.inserted)
          /\ (sendPc = "returned" /\ calls # <<>>) =>
                sendResult.error = NotJoinedSendError
    /\ sendPc \in {"called", "hasJoined", "identity", "rateLimit", "insert", "returned"}
    /\ sendPc = "returned" <=> sendResult # NoResult
    /\ \A i \in DOMAIN calls :
          calls[i].result = "rejected" =>
              (sendPc = "returned" /\ ~sendResult.success /\ i = Len(calls))

\* C28 witness: a valid content sent to a chat that is not joined came back
\* with the not-joined error after the one storage read
C28_Witness ==
    /\ params.chatGroupId \notin joinedChats
    /\ sendPc = "returned"
    /\ sendResult.error = NotJoinedSendError
    /\ Len(calls) = 1
    /\ calls[1].call = "hasJoinedChat"
    /\ calls[1].result = "false"

\* ------------------------------------------------ initialisation on its own
\* The effect and initializeChat of the hook without the server and the send
\* path: mount, chatGroupId changes, unmount, and the settling of the
\* authorization check and of the history fetch. The effect runs after the
\* render that scheduled it, and the claim assumes that the storage read and
\* the remote fetch settle: these steps are taken fairly.
NextInit ==
    \/ MountEffect
    \/ \E c \in ChatIds : ChangeChat(c)
    \/ Unmount
    \/ \E p \in DOMAIN inits : \E readOk \in BOOLEAN : HasJoinedResolve(p, readOk)
    \/ \E p \in DOMAIN inits : FetchSucceed(p)
    \/ \E p \in DOMAIN inits : FetchFail(p)

SpecInit == Init /\ [][NextInit]_vars

Settles ==
    \/ MountEffect
    \/ \E p \in DOMAIN inits : \E readOk \in BOOLEAN : HasJoinedResolve(p, readOk)
    \/ \E p \in DOMAIN inits : FetchSucceed(p) \/ FetchFail(p)

SpecInitFair == SpecInit /\ WF_vars(Settles)

\* every initializeChat call has run to its end
AllSettled == \A p \in DOMAIN inits : inits[p].pc = "done"

\* isLoading is raised in this step
LoadingRaised == isLoading = FALSE /\ isLoading' = TRUE

\* C29 (eventually): on every initialisation path the mounted hook comes to
\* isLoading = false once its storage reads and fetches have settled
C29_Eventually == <>(phase # "rendered" /\ (Mounted => (AllSettled /\ ~isLoading)))

\* C29 (stays): isLoading is raised again only by the initialisation the
\* hook is currently in, not by anything left from an earlier one
C29_Stays ==
    [][LoadingRaised =>
          /\ inits[Len(inits)].pc = "checking"
          /\ inits'[Len(inits)].pc = "fetching"]_vars

\* C29: isLoading eventually becomes false on every initialisation path and
\* stays false until the next initialisation.
C29_LoadingEndsAndStaysEnded == C29_Eventually /\ C29_Stays
====
